---------------------------- MODULE Spec2Model ----------------------------
(***************************************************************************)
(* Bank statement parser: format detection (parsers/__init__.py, base.py), *)
(* the eleven line extractors (parsers/*.py), the summary service          *)
(* (services/summary.py) and the per-document pipeline (main.py).          *)
(*                                                                         *)
(* Text is a sequence of one-character strings.  Money is an integer       *)
(* number of cents (the source's floats carry two fractional digits).      *)
(* A statement line is a record                                            *)
(*   [start, noise, balmark, far, date, desc, toks, years]                 *)
(* start   : where the extractor's date pattern matches ("date" = at the   *)
(*           very start of the stripped line, "tran_date" = after a        *)
(*           six-digit list number, "late_date" = later in the line,       *)
(*           "none" = nowhere)                                             *)
(* noise   : one of the extractor's header / brought-forward predicates    *)
(*           holds of the line                                             *)
(* balmark : the line carries "Previous Balance" or "Balance (CR)"         *)
(* far     : the first amount token starts beyond 60% of the line's length *)
(* date    : the date token as printed, [d, m, y] strings                  *)
(* desc    : the text between the date and the first amount token          *)
(* toks    : the amount-like tokens of the line, left to right, each       *)
(*           [neg, cents, sep, suffix]: a leading "-", the value, the      *)
(*           thousands separator printed ("none", "comma", "space", or     *)
(*           "tab" for any white space other than U+0020) and a trailing   *)
(*           CR / DR marker ("none" when absent).  Tokens with a separator *)
(*           are at least 1,000.00; tokens without one are below 1,000.00. *)
(* years   : the 20xx years the line offers to year recovery, [period,     *)
(*           month, bare]: the first after "period" / "statement period",  *)
(*           the first after a full month name, the first bare 20xx token  *)
(*           ("" when the line has none)                                   *)
(***************************************************************************)
EXTENDS Integers, Sequences, FiniteSets, TLC

VARIABLES
    doc,               \* the uploaded document: [pdf_name, pages]
    detected,          \* detect_bank's result: a BANK_ID, "None", or "pending"
    bank,              \* BANK_ID of the instantiated parser, "None" when there is none
    rows,              \* extract_transactions: the rows list
    previous_balance,  \* extract_transactions: previous_balance (Capitec, FNB); <<>> is None
    current_balance,   \* extract_transactions: current_balance (HBZ)
    current_year,      \* extract_transactions: current_year (FNB); "None" before a page is read
    scan,              \* extract_transactions: "idle", "scanning", "done" or "raised"
    lineNo,            \* number of lines the scan has consumed
    df,                \* the ledger handed to the summary service
    summary,           \* calculate_summary's result in a one-element sequence; <<>> before the call
    pc,                \* process_single_file's position
    outcome,           \* process_single_file's result: the HTTPException raised or the dict returned
    calls,             \* the calls process_single_file has made, in order
    metrics,           \* the result of one metric function on df, <<>> before the call
    results,           \* a multi-document request: the per-document results so far
    all_dfs,           \* a multi-document request: the ledgers tagged with their Source
    combined           \* a multi-document request: the combined ledger, <<>> before it is built

vars == <<doc, detected, bank, rows, previous_balance, current_balance,
          current_year, scan, lineNo, df, summary, pc, outcome, calls,
          metrics, results, all_dfs, combined>>

\* the variables of the aggregation functions and of a multi-document request
aggregation == <<metrics, results, all_dfs, combined>>

None == "None"

-----------------------------------------------------------------------------
(* Text primitives: str.lower and the `in` substring test.                 *)

UpperCase == <<"A", "B", "C", "D", "E", "F", "G", "H", "I", "J", "K", "L", "M",
               "N", "O", "P", "Q", "R", "S", "T", "U", "V", "W", "X", "Y", "Z">>
LowerCase == <<"a", "b", "c", "d", "e", "f", "g", "h", "i", "j", "k", "l", "m",
               "n", "o", "p", "q", "r", "s", "t", "u", "v", "w", "x", "y", "z">>

Digit == <<"0", "1", "2", "3", "4", "5", "6", "7", "8", "9">>

LowerChar(c) ==
    IF \E i \in DOMAIN UpperCase : UpperCase[i] = c
    THEN LowerCase[CHOOSE i \in DOMAIN UpperCase : UpperCase[i] = c]
    ELSE c

lower(text) == [i \in 1..Len(text) |-> LowerChar(text[i])]

Contains(text, kw) ==
    \E i \in 1..(Len(text) - Len(kw) + 1) : SubSeq(text, i, i + Len(kw) - 1) = kw

-----------------------------------------------------------------------------
(* The registry and the detection keywords.                                *)

PARSER_REGISTRY ==
    <<"tymebank", "african_bank", "hbz_bank", "discovery_bank", "investec",
      "bidvest", "absa", "nedbank", "standard_bank", "fnb", "capitec">>

BankIds == {PARSER_REGISTRY[i] : i \in DOMAIN PARSER_REGISTRY}

DETECTION_KEYWORDS(b) ==
    CASE b = "tymebank" ->
           {<<"t", "y", "m", "e", "b", "a", "n", "k">>,
            <<"t", "y", "m", "e", " ", "b", "a", "n", "k">>}
      [] b = "african_bank" ->
           {<<"a", "f", "r", "i", "c", "a", "n", " ", "b", "a", "n", "k">>,
            <<"a", "f", "r", "i", "c", "a", "n", "b", "a", "n", "k">>}
      [] b = "hbz_bank" -> {<<"h", "b", "z", " ", "b", "a", "n", "k">>}
      [] b = "discovery_bank" -> {<<"d", "i", "s", "c", "o", "v", "e", "r", "y">>}
      [] b = "investec" -> {<<"i", "n", "v", "e", "s", "t", "e", "c">>}
      [] b = "bidvest" -> {<<"b", "i", "d", "v", "e", "s", "t">>}
      [] b = "absa" -> {<<"a", "b", "s", "a">>}
      [] b = "nedbank" -> {<<"n", "e", "d", "b", "a", "n", "k">>}
      [] b = "standard_bank" ->
           {<<"s", "t", "a", "n", "d", "a", "r", "d", " ", "b", "a", "n", "k">>}
      [] b = "fnb" ->
           {<<"f", "n", "b">>,
            <<"f", "i", "r", "s", "t", " ", "n", "a", "t", "i", "o", "n", "a", "l",
              " ", "b", "a", "n", "k">>}
      [] b = "capitec" -> {<<"c", "a", "p", "i", "t", "e", "c">>}

PARSER_MAP == [b \in BankIds |-> b]

\* BaseBankParser.can_parse
can_parse(b, text) ==
    LET text_lower == lower(text)
    IN  \E keyword \in DETECTION_KEYWORDS(b) : Contains(text_lower, keyword)

-----------------------------------------------------------------------------
(* The text of a page: its lines joined by "\n".  A line's date and amount *)
(* tokens are digits and punctuation, which occur in no detection keyword; *)
(* they appear in the text as the placeholder character "0".               *)

LineText(line) ==
    (IF line.start = "none" THEN <<>> ELSE <<"0", " ">>)
    \o line.desc
    \o (IF line.toks = <<>> THEN <<>> ELSE <<" ", "0">>)

RECURSIVE PageText(_)
PageText(page) ==
    IF page = <<>> THEN <<>>
    ELSE LineText(Head(page)) \o <<"\n">> \o PageText(Tail(page))

\* the registry with two neighbours exchanged
first_match_swapped(text, i) ==
    LET reg == [k \in DOMAIN PARSER_REGISTRY |->
                   IF k = 7 THEN PARSER_REGISTRY[8]
                   ELSE IF k = 8 THEN PARSER_REGISTRY[7]
                   ELSE PARSER_REGISTRY[k]]
        hits == {k \in DOMAIN reg : can_parse(reg[k], text)}
    IN  IF hits = {} THEN None
        ELSE reg[CHOOSE k \in hits : \A j \in hits : k <= j]

\* detect_bank's loop over PARSER_REGISTRY from position i on
RECURSIVE first_match(_, _)
first_match(text, i) ==
    IF i > Len(PARSER_REGISTRY) THEN None
    ELSE IF can_parse(PARSER_REGISTRY[i], text) THEN PARSER_REGISTRY[i]
    ELSE first_match(text, i + 1)

detect_bank(d) ==
    IF d.pages # <<>>
    THEN first_match(PageText(d.pages[1]), 1)
    ELSE None

\* get_parser falling back on a generic parser when no format is detected
get_parser_or_generic(d) ==
    IF detect_bank(d) # None THEN PARSER_MAP[detect_bank(d)] ELSE "capitec"

\* get_parser: the BANK_ID of the parser instantiated, None when undetected
get_parser(d) ==
    LET bank_id == detect_bank(d)
    IN  IF bank_id # None /\ bank_id \in DOMAIN PARSER_MAP
        THEN PARSER_MAP[bank_id]
        ELSE None

-----------------------------------------------------------------------------
(* Amount tokens: what each AMOUNT_PATTERN.findall takes of a token, and   *)
(* what each conversion makes of the text matched.  A pattern whose        *)
(* character class lacks the token's separator matches only the part after *)
(* the separator (the last three digits and the fraction), without sign.   *)

Tok(neg, cents, sep, suffix) ==
    [neg |-> neg, cents |-> cents, sep |-> sep, suffix |-> suffix]

TailOf(t) == Tok(FALSE, t.cents % 100000, "none", t.suffix)

Signed(m) == IF m.neg THEN 0 - m.cents ELSE m.cents

\* abs() left out
Unchanged(x) == x

Abs(x) == IF x < 0 THEN 0 - x ELSE x

\* [\d,]+\.\d{2}   (Nedbank, Investec, HBZ)
match_digits_comma(t) ==
    IF t.sep \in {"none", "comma"} THEN Tok(FALSE, t.cents, t.sep, t.suffix)
    ELSE TailOf(t)

\* -?[\d,]+\.\d{2}   (African Bank, Standard Bank, Capitec's comma pattern)
match_signed_comma(t) ==
    IF t.sep \in {"none", "comma"} THEN t ELSE TailOf(t)

\* [\d\s]+\.\d{2}   (TymeBank, ABSA)
match_digits_space(t) ==
    IF t.sep \in {"none", "space", "tab"} THEN Tok(FALSE, t.cents, t.sep, t.suffix)
    ELSE TailOf(t)

\* -?\s*[\d\s]+\.\d{2}   (Bidvest)
match_signed_space(t) ==
    IF t.sep \in {"none", "space", "tab"} THEN t ELSE TailOf(t)

\* -?\s*R?\s*[\d\s,]+\.\d{2}   (Discovery)
match_discovery(t) == t

\* -?\d{1,3}(?: \d{3})*\.\d{2}   (Capitec): groups of three joined by U+0020
match_capitec(t) ==
    IF t.sep = "space" \/ (t.sep = "none" /\ t.cents < 100000) THEN t
    ELSE TailOf(t)

\* float(s) after the separators in `removed` were replaced away: white space
\* or a comma left inside the digits raises ValueError (ok = FALSE)
float_of(m, removed) ==
    IF m.sep \in (removed \cup {"none"})
    THEN [ok |-> TRUE, v |-> Signed(m)]
    ELSE [ok |-> FALSE, v |-> 0]

\* utils.clean_amount: spaces and commas removed, ValueError caught as 0.0
clean_amount(m) ==
    LET f == float_of(m, {"space", "comma"})
    IN  IF f.ok THEN f.v ELSE 0

-----------------------------------------------------------------------------
(* Dates.                                                                  *)

MONTH_MAP(m) ==
    CASE m \in {"Jan", "jan", "JAN"} -> "01"
      [] m \in {"Feb", "feb", "FEB"} -> "02"
      [] m \in {"Mar", "mar", "MAR"} -> "03"
      [] m \in {"Apr", "apr", "APR"} -> "04"
      [] m \in {"May", "may", "MAY"} -> "05"
      [] m \in {"Jun", "jun", "JUN"} -> "06"
      [] m \in {"Jul", "jul", "JUL"} -> "07"
      [] m \in {"Aug", "aug", "AUG"} -> "08"
      [] m \in {"Sep", "sep", "SEP"} -> "09"
      [] m \in {"Oct", "oct", "OCT"} -> "10"
      [] m \in {"Nov", "nov", "NOV"} -> "11"
      [] m \in {"Dec", "dec", "DEC"} -> "12"
      [] OTHER -> "01"

zfill2(s) == IF Len(s) < 2 THEN "0" \o s ELSE s

Slashed(d, m, y) == d \o "/" \o m \o "/" \o y

\* utils.parse_date_yyyy_mm_dd on the printed YYYY/MM/DD token
parse_date_yyyy_mm_dd(date) == Slashed(date.d, date.m, date.y)

-----------------------------------------------------------------------------
(* The scan state of extract_transactions and the rows it appends.         *)

create_transaction_row(date, description, debit, credit, balance) ==
    [Date |-> date, Description |-> description, Debit |-> debit,
     Credit |-> credit, Balance |-> balance]

NewScan(year) ==
    [rows |-> <<>>, previous_balance |-> <<>>, current_balance |-> 0,
     current_year |-> year, raised |-> FALSE]

Raise(st) == [st EXCEPT !.raised = TRUE]

\* the row put in front of the rows list
EmitFirst(st, row) == [st EXCEPT !.rows = <<row>> \o st.rows]

Emit(st, row) == [st EXCEPT !.rows = Append(st.rows, row)]

\* the balance of the first row read instead of the previous one
FirstBalance(st) == st.rows[1].Balance

LastBalance(st) == st.rows[Len(st.rows)].Balance

\* the balance-delta rule: diff < 0 is a debit of |diff|, otherwise a credit of diff
DeltaDebit(diff) == IF diff < 0 THEN Abs(diff) ELSE 0
DeltaCredit(diff) == IF diff < 0 THEN 0 ELSE diff

-----------------------------------------------------------------------------
(* The loop body of each extract_transactions: the scan state after one    *)
(* more stripped line.  `continue` leaves the state as it is.              *)

\* the positional reading applied to every line carrying three amounts
tymebank_resolve_positional(has_prev, prev_balance, balance, n, a3, a2) ==
    IF n >= 3 THEN [debit |-> a3, credit |-> a2]
    ELSE IF has_prev
    THEN [debit |-> DeltaDebit(balance - prev_balance),
          credit |-> DeltaCredit(balance - prev_balance)]
    ELSE [debit |-> 0, credit |-> 0]

\* TymeBankParser.extract_transactions, debit / credit of an accepted line:
\* a3, a2 are the third-last and second-last amounts (read only when n >= 3)
tymebank_resolve(has_prev, prev_balance, balance, n, a3, a2) ==
    IF has_prev
    THEN [debit |-> DeltaDebit(balance - prev_balance),
          credit |-> DeltaCredit(balance - prev_balance)]
    ELSE IF n >= 2 /\ n >= 3 THEN [debit |-> a3, credit |-> a2]
    ELSE [debit |-> 0, credit |-> 0]

\* TymeBankParser.extract_transactions
tymebank_line(st, line) ==
    IF line.noise THEN st
    ELSE IF line.start # "date" THEN st
    ELSE
      LET date_str == Slashed(line.date.d, MONTH_MAP(line.date.m), line.date.y)
          amounts == [i \in 1..Len(line.toks) |-> match_digits_space(line.toks[i])]
          n == Len(amounts)
      IN  IF n < 1 THEN st
          ELSE
            LET balance == float_of(amounts[n], {"space"})
                has_prev == Len(st.rows) > 0
                first3 == ~has_prev /\ n >= 3
                d3 == IF first3 THEN float_of(amounts[n - 2], {"space"})
                      ELSE [ok |-> TRUE, v |-> 0]
                c3 == IF first3 THEN float_of(amounts[n - 1], {"space"})
                      ELSE [ok |-> TRUE, v |-> 0]
                prev == IF has_prev THEN LastBalance(st) ELSE 0
                r == tymebank_resolve(has_prev, prev, balance.v, n, d3.v, c3.v)
            IN  IF ~balance.ok THEN Raise(st)
                ELSE IF ~(d3.ok /\ c3.ok) THEN Raise(st)
                ELSE Emit(st, create_transaction_row(date_str, line.desc,
                                                     r.debit, r.credit, balance.v))

\* InvestecParser.extract_transactions
investec_line(st, line) ==
    IF line.noise THEN st
    ELSE IF line.start # "date" THEN st
    ELSE
      LET date_str == Slashed(zfill2(line.date.d), MONTH_MAP(line.date.m), line.date.y)
          amounts == [i \in 1..Len(line.toks) |-> match_digits_comma(line.toks[i])]
          n == Len(amounts)
      IN  IF n < 1 THEN st
          ELSE
            LET balance == float_of(amounts[n], {"comma"})
                first == float_of(amounts[1], {"comma"})
                diff == balance.v - LastBalance(st)
                inferred == n >= 2 /\ Len(st.rows) > 0
                guessed == n >= 2 /\ Len(st.rows) = 0
                debit == IF inferred THEN DeltaDebit(diff)
                         ELSE IF guessed THEN first.v ELSE 0
                credit == IF inferred THEN DeltaCredit(diff) ELSE 0
            IN  IF ~balance.ok THEN Raise(st)
                ELSE IF guessed /\ ~first.ok THEN Raise(st)
                ELSE Emit(st, create_transaction_row(date_str, line.desc,
                                                     debit, credit, balance.v))

\* ABSAParser.extract_transactions
absa_line(st, line) ==
    IF line.noise THEN st
    ELSE IF line.start # "date" THEN st
    ELSE
      LET date_str == Slashed(line.date.d, line.date.m, line.date.y)
          amounts == [i \in 1..Len(line.toks) |-> match_digits_space(line.toks[i])]
          n == Len(amounts)
      IN  IF n < 1 THEN st
          ELSE
            LET balance == float_of(amounts[n], {"space"})
                non_balance == SubSeq(amounts, 1, n - 1)
                k == Len(non_balance)
                has_prev == Len(st.rows) > 0
                diff == balance.v - LastBalance(st)
                \* the first row converts every non-balance amount it looks at
                converted == IF n >= 2 /\ ~has_prev
                             THEN IF k = 1 THEN {1} ELSE 1..k
                             ELSE {}
                ok == \A i \in converted : float_of(non_balance[i], {"space"}).ok
                debit1 == IF n < 2 THEN 0
                          ELSE IF has_prev THEN DeltaDebit(diff)
                          ELSE IF k = 1 THEN float_of(non_balance[1], {"space"}).v
                          ELSE float_of(non_balance[k - 1], {"space"}).v
                credit1 == IF n < 2 THEN 0
                           ELSE IF has_prev THEN DeltaCredit(diff)
                           ELSE IF k = 1 THEN 0
                           ELSE float_of(non_balance[k], {"space"}).v
                fallback == n >= 2 /\ debit1 = 0 /\ credit1 = 0 /\ has_prev
                debit == IF fallback /\ diff < 0 THEN Abs(diff) ELSE debit1
                credit == IF fallback /\ diff > 0 THEN diff ELSE credit1
            IN  IF ~balance.ok THEN Raise(st)
                ELSE IF ~ok THEN Raise(st)
                ELSE Emit(st, create_transaction_row(date_str, line.desc,
                                                     debit, credit, balance.v))

\* AfricanBankParser.extract_transactions
african_bank_line(st, line) ==
    IF line.noise THEN st
    ELSE IF line.start # "date" THEN st
    ELSE
      LET date_str == parse_date_yyyy_mm_dd(line.date)
          amounts == [i \in 1..Len(line.toks) |-> match_signed_comma(line.toks[i])]
          n == Len(amounts)
      IN  IF n < 1 THEN st
          ELSE
            LET balance == float_of(amounts[n], {"comma"})
                amt == float_of(amounts[n - 1], {"comma"})
                diff == balance.v - LastBalance(st)
                debit == IF n >= 2 THEN (IF amt.v < 0 THEN Abs(amt.v) ELSE 0)
                         ELSE IF Len(st.rows) > 0 THEN DeltaDebit(diff) ELSE 0
                credit == IF n >= 2 THEN (IF amt.v < 0 THEN 0 ELSE amt.v)
                          ELSE IF Len(st.rows) > 0 THEN DeltaCredit(diff) ELSE 0
            IN  IF ~balance.ok THEN Raise(st)
                ELSE IF n >= 2 /\ ~amt.ok THEN Raise(st)
                ELSE Emit(st, create_transaction_row(date_str, line.desc,
                                                     debit, credit, balance.v))

\* NedbankParser.extract_transactions
nedbank_line(st, line) ==
    IF line.noise THEN st
    ELSE IF line.start \notin {"tran_date", "date", "late_date"} THEN st
    ELSE
      LET date_str == Slashed(line.date.d, line.date.m, line.date.y)
          amounts == [i \in 1..Len(line.toks) |-> match_digits_comma(line.toks[i])]
          n == Len(amounts)
      IN  IF n < 1 THEN st
          ELSE
            LET balance == clean_amount(amounts[n])
                has_prev == Len(st.rows) > 0
                diff == balance - LastBalance(st)
                amt_val == clean_amount(amounts[1])
                hinted == Contains(lower(line.desc), <<"f", "e", "e">>)
                          \/ Contains(lower(line.desc), <<"d", "e", "b", "i", "t">>)
                as_credit == IF has_prev THEN diff > 0
                             ELSE IF hinted THEN FALSE
                             ELSE balance > 0
                debit == IF n = 3 THEN clean_amount(amounts[1])
                         ELSE IF n = 2 THEN (IF as_credit THEN 0 ELSE amt_val)
                         ELSE IF n = 1 /\ has_prev THEN DeltaDebit(diff)
                         ELSE 0
                credit == IF n = 3 THEN clean_amount(amounts[2])
                          ELSE IF n = 2 THEN (IF as_credit THEN amt_val ELSE 0)
                          ELSE IF n = 1 /\ has_prev THEN DeltaCredit(diff)
                          ELSE 0
            IN  Emit(st, create_transaction_row(date_str, line.desc,
                                                debit, credit, balance))

\* CapitecParser.extract_transactions
capitec_line(st, line) ==
    IF line.noise THEN st
    ELSE IF line.start # "date" THEN st
    ELSE
      LET spaced == [i \in 1..Len(line.toks) |-> match_capitec(line.toks[i])]
          amounts == IF Len(spaced) < 2
                     THEN [i \in 1..Len(line.toks) |-> match_signed_comma(line.toks[i])]
                     ELSE spaced
          n == Len(amounts)
      IN  IF n < 2 THEN st
          ELSE
            LET date == Slashed(line.date.d, line.date.m, line.date.y)
                balance == clean_amount(amounts[n])
                has_prev == st.previous_balance # <<>>
                diff == balance - st.previous_balance[1]
                money_in == clean_amount(amounts[n - 3])
                money_out == clean_amount(amounts[n - 2])
                fees == clean_amount(amounts[n - 1])
                first_amt == clean_amount(amounts[1])
                second_amt == clean_amount(amounts[2])
                debit ==
                  IF n >= 4
                  THEN (IF money_out > 0 THEN Abs(money_out) ELSE 0)
                       + (IF fees > 0 THEN fees ELSE 0)
                  ELSE IF first_amt < 0
                  THEN Abs(first_amt)
                       + (IF n = 3 /\ second_amt > 0 /\ second_amt < Abs(first_amt)
                          THEN second_amt ELSE 0)
                  ELSE IF first_amt > 0 THEN 0
                  ELSE IF has_prev THEN DeltaDebit(diff)
                  ELSE 0
                credit ==
                  IF n >= 4 THEN (IF money_in > 0 THEN money_in ELSE 0)
                  ELSE IF first_amt < 0 THEN 0
                  ELSE IF first_amt > 0 THEN first_amt
                  ELSE IF has_prev THEN DeltaCredit(diff)
                  ELSE 0
            IN  [Emit(st, create_transaction_row(date, line.desc,
                                                 debit, credit, balance))
                   EXCEPT !.previous_balance = <<balance>>]

Unsigned(m) == [m EXCEPT !.neg = FALSE]

\* BidvestParser.extract_transactions
bidvest_line(st, line) ==
    IF line.noise THEN st
    ELSE IF line.start # "date" THEN st
    ELSE
      LET date_str == parse_date_yyyy_mm_dd(line.date)
          amounts == [i \in 1..Len(line.toks) |-> match_signed_space(line.toks[i])]
          n == Len(amounts)
      IN  IF n < 1 THEN st
          ELSE
            LET cleaned == [i \in 1..n |-> float_of(Unsigned(amounts[i]), {"space"})]
                is_negative == [i \in 1..n |-> amounts[i].neg]
                balance == cleaned[n]
                has_prev == Len(st.rows) > 0
                diff == balance.v - LastBalance(st)
                used == IF n >= 3 THEN {n - 1, n - 2}
                        ELSE IF n = 2 THEN {1}
                        ELSE {}
                amt_idx == IF n >= 3 THEN n - 1 ELSE 1
                amt_val == cleaned[amt_idx].v
                fees_val == cleaned[n - 2].v
                debit == IF n >= 2
                         THEN (IF is_negative[amt_idx] THEN amt_val ELSE 0)
                              + (IF n >= 3 /\ fees_val > 0 THEN fees_val ELSE 0)
                         ELSE IF has_prev THEN DeltaDebit(diff)
                         ELSE 0
                credit == IF n >= 2
                          THEN (IF is_negative[amt_idx] THEN 0 ELSE amt_val)
                          ELSE IF has_prev THEN DeltaCredit(diff)
                          ELSE 0
            IN  IF ~balance.ok THEN Raise(st)
                ELSE IF \E i \in used : ~cleaned[i].ok THEN Raise(st)
                ELSE Emit(st, create_transaction_row(date_str, line.desc,
                                                     debit, credit, balance.v))

\* StandardBankParser.extract_transactions
standard_bank_line(st, line) ==
    IF line.noise THEN st
    ELSE IF line.start # "date" THEN st
    ELSE
      LET amounts == [i \in 1..Len(line.toks) |-> match_signed_comma(line.toks[i])]
          n == Len(amounts)
      IN  IF n < 1 THEN st
          ELSE
            LET date_str == Slashed(zfill2(line.date.d), MONTH_MAP(line.date.m),
                                    "20" \o line.date.y)
                balance == clean_amount(amounts[n])
                payment == clean_amount(amounts[1])
                deposit == clean_amount(amounts[2])
                first_amount == clean_amount(amounts[1])
                debit == IF n = 3
                         THEN (IF deposit < 0 THEN Abs(deposit)
                               ELSE IF payment < 0 THEN Abs(payment)
                               ELSE 0)
                         ELSE IF n = 2 /\ first_amount < 0 THEN Abs(first_amount)
                         ELSE 0
                credit == IF n = 3
                          THEN (IF deposit > 0 THEN deposit
                                ELSE IF payment > 0 THEN payment
                                ELSE 0)
                          ELSE IF n = 2 /\ first_amount >= 0 THEN first_amount
                          ELSE 0
            IN  Emit(st, create_transaction_row(date_str, line.desc,
                                                debit, credit, balance))

IsMonthName(m) ==
    m \in {"Jan", "Feb", "Mar", "Apr", "May", "Jun",
           "Jul", "Aug", "Sep", "Oct", "Nov", "Dec"}

\* DiscoveryParser._clean_discovery_amount: "R" and spaces removed, the sign
\* split off, then float()
clean_discovery_amount(amt) ==
    LET f == float_of(Unsigned(amt), {"space"})
    IN  [ok |-> f.ok, v |-> f.v, is_neg |-> amt.neg]

Transaction == <<"T", "r", "a", "n", "s", "a", "c", "t", "i", "o", "n">>

\* DiscoveryParser.extract_transactions
discovery_line(st, line) ==
    IF line.noise THEN st
    ELSE IF line.start # "date" THEN st
    ELSE
      LET date_str == IF IsMonthName(line.date.m)
                      THEN Slashed(zfill2(line.date.d), MONTH_MAP(line.date.m),
                                   line.date.y)
                      ELSE Slashed(line.date.d, line.date.m, line.date.y)
          amounts == [i \in 1..Len(line.toks) |-> match_discovery(line.toks[i])]
          n == Len(amounts)
          description == IF line.desc # <<>> THEN line.desc ELSE Transaction
      IN  IF n < 1 THEN st
          ELSE
            LET third == clean_discovery_amount(amounts[n - 2])
                second == clean_discovery_amount(amounts[n - 1])
                last == clean_discovery_amount(amounts[n])
                first == clean_discovery_amount(amounts[1])
                ok == IF n >= 3 THEN third.ok /\ second.ok /\ last.ok
                      ELSE IF n = 2 THEN first.ok /\ last.ok
                      ELSE last.ok
                debit == IF n >= 3
                         THEN (IF third.v > 0 /\ ~third.is_neg THEN third.v ELSE 0)
                         ELSE IF n = 2
                         THEN (IF first.is_neg THEN first.v ELSE 0)
                         ELSE (IF last.is_neg THEN last.v ELSE 0)
                credit == IF n >= 3
                          THEN (IF second.v > 0 /\ ~second.is_neg THEN second.v ELSE 0)
                          ELSE IF n = 2
                          THEN (IF first.is_neg THEN 0 ELSE first.v)
                          ELSE (IF last.is_neg THEN 0 ELSE last.v)
                balance == IF n >= 2
                           THEN (IF last.is_neg THEN 0 - last.v ELSE last.v)
                           ELSE IF Len(st.rows) > 0
                           THEN LastBalance(st) - debit + credit
                           ELSE credit - debit
            IN  IF ~ok THEN Raise(st)
                ELSE Emit(st, create_transaction_row(date_str, description,
                                                     debit, credit, balance))

\* the Balance read from the last amount of the transaction line
hbz_line_printed_balance(st, line) ==
    LET amounts == [i \in 1..Len(line.toks) |-> match_digits_comma(line.toks[i])]
        n == Len(amounts)
    IN  IF line.noise THEN st
        ELSE IF line.balmark
        THEN IF n > 0
             THEN [st EXCEPT !.current_balance = clean_amount(amounts[n])]
             ELSE st
        ELSE IF line.start # "date" THEN st
        ELSE IF n < 1 THEN st
        ELSE
          LET date_str == Slashed(zfill2(line.date.d), MONTH_MAP(line.date.m),
                                  line.date.y)
              cleaned_amounts == [i \in 1..n |-> clean_amount(amounts[i])]
              debit == IF n >= 2 THEN cleaned_amounts[1]
                       ELSE IF line.far THEN 0 ELSE cleaned_amounts[1]
              credit == IF n >= 2 THEN cleaned_amounts[2]
                        ELSE IF line.far THEN cleaned_amounts[1] ELSE 0
              balance == cleaned_amounts[n]
          IN  [Emit(st, create_transaction_row(date_str, line.desc,
                                               debit, credit, balance))
                 EXCEPT !.current_balance = balance]

\* HBZParser.extract_transactions
hbz_line(st, line) ==
    LET amounts == [i \in 1..Len(line.toks) |-> match_digits_comma(line.toks[i])]
        n == Len(amounts)
    IN  IF line.noise THEN st
        ELSE IF line.balmark
        THEN IF n > 0
             THEN [st EXCEPT !.current_balance = clean_amount(amounts[n])]
             ELSE st
        ELSE IF line.start # "date" THEN st
        ELSE IF n < 1 THEN st
        ELSE
          LET date_str == Slashed(zfill2(line.date.d), MONTH_MAP(line.date.m),
                                  line.date.y)
              cleaned_amounts == [i \in 1..n |-> clean_amount(amounts[i])]
              debit == IF n >= 2 THEN cleaned_amounts[1]
                       ELSE IF line.far THEN 0 ELSE cleaned_amounts[1]
              credit == IF n >= 2 THEN cleaned_amounts[2]
                        ELSE IF line.far THEN cleaned_amounts[1] ELSE 0
              balance == st.current_balance - debit + credit
          IN  [Emit(st, create_transaction_row(date_str, line.desc,
                                               debit, credit, balance))
                 EXCEPT !.current_balance = balance]

\* datetime.now().strftime("%Y")
NowYear == "2026"

FirstYear(page, kind) ==
    LET has == {i \in DOMAIN page : page[i].years[kind] # ""}
    IN  IF has = {} THEN ""
        ELSE page[CHOOSE i \in has : \A j \in has : i <= j].years[kind]

\* utils.extract_year_from_text on the text of a page
extract_year_from_text(page) ==
    IF FirstYear(page, "period") # "" THEN FirstYear(page, "period")
    ELSE IF FirstYear(page, "month") # "" THEN FirstYear(page, "month")
    ELSE IF FirstYear(page, "bare") # "" THEN FirstYear(page, "bare")
    ELSE NowYear

\* [\d,]+\.\d{2}\s*(?:CR|DR) over the tokens: the tokens that carry a marker
match_cr_dr(toks) ==
    LET marked == SelectSeq(toks, LAMBDA t : t.suffix # "none")
    IN  [i \in 1..Len(marked) |-> match_digits_comma(marked[i])]

\* FNBParser._parse_amount_cr_dr
parse_amount_cr_dr(m) ==
    [value |-> m.cents, is_credit |-> m.suffix = "CR"]

\* FNBParser._parse_transaction_history_line: <<>> is None
parse_transaction_history_line(line, date_str) ==
    LET amounts == match_cr_dr(line.toks)
        n == Len(amounts)
    IN  IF n < 2 THEN <<>>
        ELSE
          LET bal == parse_amount_cr_dr(amounts[n])
              balance == IF bal.is_credit THEN bal.value ELSE 0 - bal.value
              amt == parse_amount_cr_dr(amounts[n - 1])
              credit == IF amt.is_credit THEN amt.value ELSE 0
              debit == IF amt.is_credit THEN 0 ELSE amt.value
          IN  <<create_transaction_row(date_str, line.desc, debit, credit, balance)>>

\* [\d,]+\.?\d* and the filter ('.' in a or len(a) >= 3): digits before a white
\* space separator are a match of their own, under three characters, filtered out
match_plain(t) ==
    IF t.sep \in {"none", "comma"} THEN Tok(FALSE, t.cents, t.sep, t.suffix)
    ELSE TailOf(t)

\* AMOUNT_PATTERN_PLAIN.findall over the text in front of the printed amounts:
\* the maximal runs of digits and commas from position i on, `run` being the
\* run that is open at i (the descriptions carry no decimal point, so that
\* \.?\d* adds nothing to a run)
RECURSIVE findall_plain(_, _, _)
findall_plain(text, i, run) ==
    LET closed == IF run = <<>> THEN <<>>
                  ELSE <<[start |-> i - Len(run), text |-> run]>>
    IN  IF i > Len(text) THEN closed
        ELSE IF text[i] = "," \/ \E d \in DOMAIN Digit : Digit[d] = text[i]
        THEN findall_plain(text, i + 1, Append(run, text[i]))
        ELSE closed \o findall_plain(text, i + 1, <<>>)

\* float(a.replace(",", "")) of a run of digits and commas, in cents
RECURSIVE float_plain(_)
float_plain(a) ==
    IF a = <<>> THEN 0
    ELSE LET c == a[Len(a)]
             front == float_plain(SubSeq(a, 1, Len(a) - 1))
         IN  IF c = "," THEN front
             ELSE 10 * front + 100 * ((CHOOSE d \in DOMAIN Digit : Digit[d] = c) - 1)

\* FNBParser._parse_bank_statement_line: <<>> is None
parse_bank_statement_line(line, date_str, prev) ==
    LET runs == findall_plain(line.desc, 1, <<>>)
        whole == SelectSeq(runs, LAMBDA r : Len(r.text) >= 3)
        amounts == [i \in 1..Len(whole) |->
                        Tok(FALSE, float_plain(whole[i].text), "none", "none")]
                   \o [i \in 1..Len(line.toks) |-> match_plain(line.toks[i])]
        n == Len(amounts)
        \* re.search(r"[\d,]+\.?\d+"): the first run of two characters or more
        first == SelectSeq(runs, LAMBDA r : Len(r.text) >= 2)
        cut == IF first = <<>> THEN Len(line.desc) ELSE first[1].start - 1
        RECURSIVE strip(_)
        strip(t) == IF t # <<>> /\ t[Len(t)] = " "
                    THEN strip(SubSeq(t, 1, Len(t) - 1)) ELSE t
        description == strip(SubSeq(line.desc, 1, cut))
    IN  IF n < 2 THEN <<>>
        ELSE
          LET balance == amounts[n].cents
              amount == amounts[n - 1].cents
              diff == balance - prev[1]
              as_credit == IF prev # <<>>
                           THEN IF diff = amount THEN TRUE
                                ELSE IF diff + amount = 0 THEN FALSE
                                ELSE diff > 0
                           ELSE balance > 0
              credit == IF as_credit THEN amount ELSE 0
              debit == IF as_credit THEN 0 ELSE amount
          IN  <<create_transaction_row(date_str, description, debit, credit, balance)>>

\* FNBParser.extract_transactions
fnb_line(st, line) ==
    IF line.noise THEN st
    ELSE IF line.start # "date" THEN st
    ELSE
      LET has_year == line.date.y # ""
          year == IF has_year THEN line.date.y
                  ELSE IF st.current_year # None THEN st.current_year
                  ELSE NowYear
          date_str == Slashed(line.date.d, MONTH_MAP(line.date.m), year)
          has_cr_dr == \E i \in DOMAIN line.toks : line.toks[i].suffix # "none"
      IN  IF has_cr_dr
          THEN LET row == parse_transaction_history_line(line, date_str)
               IN  IF row # <<>> THEN Emit(st, row[1]) ELSE st
          ELSE LET row == parse_bank_statement_line(line, date_str,
                                                    st.previous_balance)
               IN  IF row # <<>>
                   THEN [Emit(st, row[1]) EXCEPT !.previous_balance = <<row[1].Balance>>]
                   ELSE st

\* the loop body of the extractor of parser `b`
scan_line(b, st, line) ==
    CASE b = "tymebank" -> tymebank_line(st, line)
      [] b = "african_bank" -> african_bank_line(st, line)
      [] b = "hbz_bank" -> hbz_line(st, line)
      [] b = "discovery_bank" -> discovery_line(st, line)
      [] b = "investec" -> investec_line(st, line)
      [] b = "bidvest" -> bidvest_line(st, line)
      [] b = "absa" -> absa_line(st, line)
      [] b = "nedbank" -> nedbank_line(st, line)
      [] b = "standard_bank" -> standard_bank_line(st, line)
      [] b = "fnb" -> fnb_line(st, line)
      [] b = "capitec" -> capitec_line(st, line)

-----------------------------------------------------------------------------
(* The statement lines the scans are run on.                               *)

MaxLines == 3

Zero == Tok(FALSE, 0, "none", "none")
Amt1 == Tok(FALSE, 10000, "none", "none")
Amt2 == Tok(FALSE, 25000, "none", "none")
Neg1 == Tok(TRUE, 10000, "none", "none")
Comma == Tok(FALSE, 150000, "comma", "none")
Tabbed == Tok(FALSE, 150000, "tab", "none")
Cr1 == Tok(FALSE, 10000, "none", "CR")
Cr2 == Tok(FALSE, 25000, "none", "CR")
Dr1 == Tok(FALSE, 10000, "none", "DR")

TokSeqs ==
    { <<>>, <<Amt1>>, <<Amt2>>, <<Tabbed>>,
      <<Amt1, Amt2>>, <<Neg1, Amt2>>, <<Zero, Amt1>>, <<Comma, Amt2>>,
      <<Amt1, Zero, Amt2>>, <<Zero, Amt1, Amt2>>, <<Amt1, Amt1, Amt2>>,
      <<Neg1, Amt1, Amt2>>, <<Amt1, Neg1, Amt2>>, <<Amt2, Neg1>>,
      <<Amt1, Amt1, Zero, Amt2>>,
      <<Cr1, Cr2>>, <<Dr1, Cr2>> }

Salary == <<"S", "a", "l", "a", "r", "y">>
MonthlyFee == <<"M", "o", "n", "t", "h", "l", "y", " ", "F", "e", "e">>
\* a description that carries a reference number
Reference == <<"R", "e", "f", " ", "1", "2", "3", "4", "5", "6">>

\* a date token in the layout the extractor of parser b expects
PrintedDate(b) ==
    CASE b \in {"absa", "nedbank", "capitec", "african_bank", "bidvest"} ->
           [d |-> "01", m |-> "02", y |-> "2024"]
      [] b = "discovery_bank" -> [d |-> "5", m |-> "Feb", y |-> "2024"]
      [] b = "investec" -> [d |-> "5", m |-> "Feb", y |-> "2024"]
      [] b = "tymebank" -> [d |-> "05", m |-> "Feb", y |-> "2024"]
      [] b = "hbz_bank" -> [d |-> "5", m |-> "Feb", y |-> "2024"]
      [] b = "standard_bank" -> [d |-> "5", m |-> "Feb", y |-> "24"]
      [] b = "fnb" -> [d |-> "05", m |-> "Feb", y |-> ""]

\* other date tokens the DATE_PATTERN of parser b accepts
OtherDates(b) ==
    CASE b = "absa" -> {[d |-> "1", m |-> "2", y |-> "2024"]}
      [] b = "discovery_bank" -> {[d |-> "05", m |-> "02", y |-> "2024"]}
      [] b = "hbz_bank" -> {[d |-> "15", m |-> "DEC", y |-> "2023"]}
      [] OTHER -> {}

NoYears == [period |-> "", month |-> "", bare |-> ""]

Line(start, noise, balmark, far, date, desc, toks) ==
    [start |-> start, noise |-> noise, balmark |-> balmark, far |-> far,
     date |-> date, desc |-> desc, toks |-> toks,
     years |-> IF start # "none" /\ Len(date.y) = 4
               THEN [NoYears EXCEPT !.bare = date.y]
               ELSE NoYears]

Lines(b) ==
    { Line("date", FALSE, FALSE, FALSE, PrintedDate(b), Salary, toks) : toks \in TokSeqs }
    \cup
    { Line("none", FALSE, FALSE, FALSE, PrintedDate(b), Salary, <<Amt1, Amt2>>),
      Line("date", TRUE, FALSE, FALSE, PrintedDate(b), Salary, <<Amt1, Amt2>>),
      Line("none", FALSE, TRUE, FALSE, PrintedDate(b), Salary, <<Amt2>>),
      Line("none", FALSE, TRUE, FALSE, PrintedDate(b), Salary, <<>>),
      Line("date", FALSE, FALSE, TRUE, PrintedDate(b), Salary, <<Amt1>>),
      Line("date", FALSE, FALSE, FALSE, PrintedDate(b), MonthlyFee, <<Amt1, Amt2>>),
      Line("tran_date", FALSE, FALSE, FALSE, PrintedDate(b), Salary, <<Amt1, Amt2>>),
      Line("late_date", FALSE, FALSE, FALSE, PrintedDate(b), Salary, <<Amt1, Amt2>>) }
    \cup
    { Line("date", FALSE, FALSE, FALSE, date, Salary, <<Amt1, Amt2>>) :
          date \in OtherDates(b) }
    \cup
    (IF b = "fnb"
     THEN { Line("date", FALSE, FALSE, FALSE, PrintedDate(b), Reference, <<Amt2>>) }
     ELSE {})

\* years extract_year_from_text recovers from the first page with text
RecoveredYears == {"2025", NowYear}

-----------------------------------------------------------------------------
(* SpecExtract: extract_transactions of one parser, line after line.       *)

St == [rows |-> rows, previous_balance |-> previous_balance,
       current_balance |-> current_balance, current_year |-> current_year,
       raised |-> scan = "raised"]

IdleDetect == doc = [pdf_name |-> TRUE, pages |-> <<>>] /\ detected = "pending"
IdleSummary == summary = <<>>
NoOutcome == [kind |-> "none", status_code |-> 0, detail |-> "", cause |-> ""]
IdlePipeline == pc = "idle" /\ outcome = NoOutcome /\ calls = <<>>
IdleAggregation ==
    metrics = <<>> /\ results = <<>> /\ all_dfs = <<>> /\ combined = <<>>

InitExtract ==
    /\ bank \in BankIds
    /\ rows = <<>>
    /\ previous_balance = <<>>
    /\ current_balance = 0
    /\ current_year \in (IF bank = "fnb" THEN RecoveredYears ELSE {None})
    /\ scan = "scanning"
    /\ lineNo = 0
    /\ df = <<>>
    /\ IdleDetect /\ IdleSummary /\ IdlePipeline /\ IdleAggregation

Scan(b) ==
    /\ bank = b
    /\ scan = "scanning"
    /\ lineNo < MaxLines
    /\ \E line \in Lines(b) :
         LET s == scan_line(b, St, line)
         IN  /\ rows' = s.rows
             /\ previous_balance' = s.previous_balance
             /\ current_balance' = s.current_balance
             /\ current_year' = s.current_year
             /\ scan' = IF s.raised THEN "raised" ELSE "scanning"
    /\ lineNo' = lineNo + 1
    /\ UNCHANGED aggregation
    /\ UNCHANGED <<doc, detected, bank, df, summary, pc, outcome, calls>>

ScanTymeBank == Scan("tymebank")
ScanAfricanBank == Scan("african_bank")
ScanHBZ == Scan("hbz_bank")
ScanDiscovery == Scan("discovery_bank")
ScanInvestec == Scan("investec")
ScanBidvest == Scan("bidvest")
ScanABSA == Scan("absa")
ScanNedbank == Scan("nedbank")
ScanStandardBank == Scan("standard_bank")
ScanFNB == Scan("fnb")
ScanCapitec == Scan("capitec")

\* the end of the last page: return pd.DataFrame(rows)
FinishScan ==
    /\ scan = "scanning"
    /\ scan' = "done"
    /\ df' = rows
    /\ UNCHANGED aggregation
    /\ UNCHANGED <<doc, detected, bank, rows, previous_balance, current_balance,
                   current_year, lineNo, summary, pc, outcome, calls>>

NextExtract ==
    \/ ScanTymeBank \/ ScanAfricanBank \/ ScanHBZ \/ ScanDiscovery
    \/ ScanInvestec \/ ScanBidvest \/ ScanABSA \/ ScanNedbank
    \/ ScanStandardBank \/ ScanFNB \/ ScanCapitec
    \/ FinishScan

SpecExtract == InitExtract /\ [][NextExtract]_vars

-----------------------------------------------------------------------------
(* Properties of the extractors, stated over SpecExtract.                  *)

\* the running-balance equation between row i-1 and row i of a ledger
Chained(ledger, i) ==
    ledger[i].Balance = ledger[i - 1].Balance - ledger[i].Debit + ledger[i].Credit

\* C1: every transaction emitted by extract_transactions of any of the
\* eleven extractors has a zero debit or a zero credit: no row carries a
\* non-zero amount in both columns.
C1_DebitOrCreditIsZero ==
    \A i \in DOMAIN rows : rows[i].Debit = 0 \/ rows[i].Credit = 0

\* C8: a line that passes the date check but whose amount tokens cannot be
\* converted appends no transaction and lets the scan go on:
\* extract_transactions never raises.
C8_ExtractNeverRaises == scan # "raised"

\* C9: in a TymeBank ledger every row after the first satisfies
\* balance[i] = balance[i-1] - debit[i] + credit[i], whatever number of
\* amount tokens its line carries.
C9_TymeBankBalanceChain ==
    bank = "tymebank" => \A i \in 2..Len(rows) : Chained(rows, i)

\* a TymeBank ledger whose second row is a debit and whose third is a credit
C9_Witness ==
    /\ bank = "tymebank"
    /\ Len(rows) = 3
    /\ rows[2].Debit > 0
    /\ rows[3].Credit > 0

\* C10: in an Investec or ABSA ledger every row after the first satisfies
\* balance[i] = balance[i-1] - debit[i] + credit[i], including rows read
\* from lines that carry a single amount token.
C10_InvestecAbsaBalanceChain ==
    bank \in {"investec", "absa"} => \A i \in 2..Len(rows) : Chained(rows, i)

\* the extractors with a balance-only branch
BalanceOnlyBanks == {"african_bank", "bidvest", "nedbank", "tymebank"}

\* the dated lines of parser b that carry one plainly printed amount
BalanceOnlyLines(b) ==
    {line \in Lines(b) : /\ line.start = "date" /\ ~line.noise
                         /\ Len(line.toks) = 1
                         /\ line.toks[1].sep = "none"}

C18_AmountsNonNegative ==
    \A i \in DOMAIN rows : rows[i].Debit >= 0 /\ rows[i].Credit >= 0

\* a Standard Bank row read from a minus-signed payment, after which a
\* row with a negative balance follows
C18_Witness ==
    /\ bank = "standard_bank"
    /\ Len(rows) = 2
    /\ rows[1].Debit = 10000 /\ rows[1].Credit = 0
    /\ rows[2].Balance < 0

\* the strings DD/MM/YYYY with DD in 01..31, MM in 01..12 and a year 20YY
NormalizedDates ==
    LET tens == {"0", "1", "2", "3", "4", "5", "6", "7", "8", "9"}
        all == {a \o b : a \in tens, b \in tens}
        DD == {a \o b : a \in {"0", "1", "2"}, b \in tens} \cup {"30", "31"}
        MM == {"0" \o b : b \in tens} \cup {"10", "11", "12"}
    IN  {d \o "/" \o m \o "/" \o "20" \o y :
            d \in DD \ {"00"}, m \in MM \ {"00"}, y \in all}

\* C19: every emitted row carries its Date in the form DD/MM/YYYY, with a
\* zero-padded two-digit day and month and a four-digit year, whatever the
\* date form of the source layout.
C19_DateIsNormalized ==
    \A i \in DOMAIN rows : rows[i].Date \in NormalizedDates

\* the balance an extractor holds as the previous one, <<>> when it has none
PreviousBalance ==
    IF bank \in {"capitec", "fnb"} THEN previous_balance
    ELSE IF rows = <<>> THEN <<>>
    ELSE <<rows[Len(rows)].Balance>>

\* in the present scan state the extractor resolves the plainly printed,
\* dated line from the balance delta
DeltaResolved(line) ==
    LET n == Len(line.toks)
    IN  /\ line.start = "date" /\ ~line.noise /\ ~line.balmark
        /\ \A i \in 1..n : /\ line.toks[i].sep = "none"
                            /\ line.toks[i].suffix = "none"
                            /\ ~line.toks[i].neg
        /\ PreviousBalance # <<>>
        /\ CASE bank = "tymebank" -> n >= 1
              [] bank \in {"investec", "absa"} -> n >= 2
              [] bank \in {"african_bank", "bidvest"} -> n = 1
              [] bank = "nedbank" -> n \in {1, 2}
              [] bank = "capitec" -> n \in {2, 3} /\ line.toks[1].cents = 0
              [] bank = "fnb" -> n >= 2
              [] OTHER -> FALSE

\* C22: wherever an extractor resolves an amount's direction from the
\* balance delta (delta = balance - previous balance), delta < 0 yields a
\* debit of |delta| with credit 0 and delta >= 0 yields a credit of delta
\* with debit 0; a delta of exactly 0 is never resolved as a debit.  This
\* holds for every delta-based branch, Nedbank's and FNB's amount-plus-
\* balance lines included.
C22_DeltaRule ==
    scan = "scanning" =>
        \A line \in {l \in Lines(bank) : DeltaResolved(l)} :
            LET after == scan_line(bank, St, line).rows
                row == after[Len(after)]
                delta == row.Balance - PreviousBalance[1]
            IN  /\ Len(after) = Len(rows) + 1
                /\ row.Debit = (IF delta < 0 THEN 0 - delta ELSE 0)
                /\ row.Credit = (IF delta < 0 THEN 0 ELSE delta)

\* C23: in every extractor a line on which the date pattern does not match
\* at the very start of the stripped line yields no transaction: a date
\* token later in the line, or after a leading non-date token, never starts
\* a transaction.
C23_DateAtLineStart ==
    scan = "scanning" =>
        \A line \in {l \in Lines(bank) : l.start # "date"} :
            scan_line(bank, St, line).rows = rows

PositionalBanks ==
    {"nedbank", "standard_bank", "hbz_bank", "capitec", "discovery_bank"}

\* the line with one more amount-like token in front of its amounts
WithEarlierToken(line, t) == [line EXCEPT !.toks = <<t>> \o @]

\* C25: in the extractors with positional columns (Nedbank, Standard Bank,
\* HBZ, Capitec, Discovery) an additional amount-like token earlier on the
\* line does not change the resolved debit, credit and balance compared with
\* the same line without that token.
C25_EarlierTokenIsIgnored ==
    (scan = "scanning" /\ bank \in PositionalBanks) =>
        \A line \in {l \in Lines(bank) : l.start = "date" /\ ~l.noise /\ ~l.balmark
                                          /\ Len(l.toks) \in {2, 3}} :
            LET plain == scan_line(bank, St, line)
                extra == scan_line(bank, St, WithEarlierToken(line, Amt1))
                a == plain.rows[Len(plain.rows)]
                b == extra.rows[Len(extra.rows)]
            IN  (~plain.raised /\ Len(plain.rows) = Len(rows) + 1) =>
                    /\ ~extra.raised
                    /\ Len(extra.rows) = Len(rows) + 1
                    /\ b.Debit = a.Debit
                    /\ b.Credit = a.Credit
                    /\ b.Balance = a.Balance

\* C26: in the extractors that keep a previous balance (Capitec, FNB) the
\* previous balance is absent before the first appended transaction and is
\* afterwards the Balance of the most recently appended transaction,
\* whichever layout branch appended it; skipped lines never change it.
C26_PreviousBalanceCarried ==
    (bank \in {"capitec", "fnb"} /\ scan \in {"scanning", "done"}) =>
        previous_balance = (IF rows = <<>> THEN <<>>
                            ELSE <<rows[Len(rows)].Balance>>)

\* the 'Previous Balance' and 'Balance (CR)' lines of an HBZ statement
BalanceLines == {l \in Lines("hbz_bank") : l.balmark /\ ~l.noise}

\* the HBZ lines that append a transaction
RowLines ==
    {l \in Lines("hbz_bank") :
         l.start = "date" /\ ~l.noise /\ ~l.balmark /\ Len(l.toks) >= 1}

LastRow(st) == st.rows[Len(st.rows)]

\* C30 as stated: the Balance of an HBZ row is the running balance minus the
\* debit plus the credit, and balance[i] = balance[i-1] - debit[i] + credit[i]
\* holds for consecutive rows exactly when no balance line lies between them.
C30_ChainExactlyWithoutBalanceLine ==
    (bank = "hbz_bank" /\ scan = "scanning") =>
        \A l1 \in RowLines, l2 \in RowLines :
            LET s1 == hbz_line(St, l1)
                direct == hbz_line(s1, l2)
            IN  /\ Chained(direct.rows, Len(direct.rows))
                /\ \A m \in BalanceLines :
                       LET between == hbz_line(hbz_line(s1, m), l2)
                       IN  ~Chained(between.rows, Len(between.rows))

\* C30 amended: the Balance of an HBZ row is the running balance minus the
\* debit plus the credit; the running balance starts at 0, is replaced by
\* the last amount of a balance line that carries one, and is otherwise the
\* Balance of the previous row. Consecutive rows are chained whenever no
\* balance line with an amount lies between them, and with such a line
\* between them exactly when its amount restates the previous row's Balance.
\* Stated for the lines read next in every state the scan can go on from.
C30_HBZBalanceIsDerived ==
    (bank = "hbz_bank" /\ scan = "scanning" /\ lineNo < MaxLines) =>
        /\ lineNo = 0 => current_balance = 0
        /\ \A l1 \in RowLines, l2 \in RowLines : \A s1 \in {hbz_line(St, l1)} :
            LET direct == hbz_line(s1, l2)
            IN  /\ Len(s1.rows) = Len(rows) + 1
                /\ LastRow(s1).Balance
                     = current_balance - LastRow(s1).Debit + LastRow(s1).Credit
                /\ s1.current_balance = LastRow(s1).Balance
                /\ Chained(direct.rows, Len(direct.rows))
                /\ \A m \in BalanceLines : \A marked \in {hbz_line(s1, m)} :
                       LET between == hbz_line(marked, l2)
                           restated == \/ m.toks = <<>>
                                       \/ m.toks[Len(m.toks)].cents = LastRow(s1).Balance
                       IN  /\ marked.rows = s1.rows
                           /\ marked.current_balance
                                = (IF m.toks = <<>> THEN s1.current_balance
                                   ELSE m.toks[Len(m.toks)].cents)
                           /\ Chained(between.rows, Len(between.rows)) <=> restated

\* two HBZ rows with a balance line of another amount between them
C30_Witness ==
    /\ bank = "hbz_bank" /\ Len(rows) = 2
    /\ ~Chained(rows, 2)
    /\ rows[2].Balance = current_balance

\* the extractors whose amount pattern takes no white space, so that a number
\* in the description stays apart from the amounts printed after it
UnspacedBanks ==
    {"african_bank", "hbz_bank", "investec", "nedbank", "standard_bank", "fnb"}

\* C24: only tokens with a decimal point and two fractional digits are amount
\* tokens: a whole number in the description (a reference number) is never
\* counted toward the minimum amount count and is never used as the amount or
\* the balance, so the line resolves as it does without the number.
C24_WholeNumbersAreNotAmounts ==
    (scan = "scanning" /\ bank \in UnspacedBanks) =>
        \A line \in {l \in Lines(bank) : l.desc = Salary} :
            LET plain == scan_line(bank, St, line)
                numbered == scan_line(bank, St, [line EXCEPT !.desc = Reference])
            IN  /\ Len(numbered.rows) = Len(plain.rows)
                /\ Len(plain.rows) > Len(rows) =>
                       LET a == plain.rows[Len(plain.rows)]
                           b == numbered.rows[Len(numbered.rows)]
                       IN  /\ b.Debit = a.Debit
                           /\ b.Credit = a.Credit
                           /\ b.Balance = a.Balance

\* C27: the ledger is an order-preserving, append-only image of the
\* document: every line read yields at most one transaction, a new
\* transaction goes behind the ones already emitted (so the k-th comes from
\* a later line than the (k-1)-th), and the transactions already emitted are
\* never modified, removed or re-sorted.
C27_AppendOnly ==
    [][ /\ Len(rows') >= Len(rows)
        /\ Len(rows') <= Len(rows) + 1
        /\ \A k \in DOMAIN rows : rows'[k] = rows[k]
        /\ Len(rows') > Len(rows) => lineNo' = lineNo + 1 ]_vars

\* a Discovery scan of three lines that emitted two different rows and
\* skipped a line
C27_Witness ==
    /\ bank = "discovery_bank"
    /\ lineNo = 3
    /\ Len(rows) = 2
    /\ rows[1] # rows[2]

-----------------------------------------------------------------------------
(* SpecSummary: calculate_summary over ledgers built row by row.           *)

RECURSIVE ColumnSum(_, _)
\* df[column].sum()
ColumnSum(d, column) ==
    IF d = <<>> THEN 0 ELSE d[1][column] + ColumnSum(Tail(d), column)

Summary(total_debits, total_credits, net_movement, ending_balance, transaction_count) ==
    [total_debits |-> total_debits, total_credits |-> total_credits,
     net_movement |-> net_movement, ending_balance |-> ending_balance,
     transaction_count |-> transaction_count]

\* calculate_summary reading the ending balance off the first row
calculate_summary_first_row(d) ==
    IF d = <<>> THEN Summary(0, 0, 0, 0, 0)
    ELSE Summary(ColumnSum(d, "Debit"), ColumnSum(d, "Credit"),
                 ColumnSum(d, "Credit") - ColumnSum(d, "Debit"),
                 d[1].Balance, Len(d))

calculate_summary(d) ==
    IF d = <<>> THEN Summary(0, 0, 0, 0, 0)
    ELSE LET total_debits == ColumnSum(d, "Debit")
             total_credits == ColumnSum(d, "Credit")
             net_movement == total_credits - total_debits
             ending_balance == d[Len(d)].Balance
         IN  Summary(total_debits, total_credits, net_movement,
                     ending_balance, Len(d))

MaxRows == 3

SalaryRow == create_transaction_row("01/02/2024", Salary, 0, 1500000, 1500000)
FeeRow == create_transaction_row("02/02/2024", MonthlyFee, 50000, 0, 1450000)

RowPool ==
    { SalaryRow, FeeRow,
      create_transaction_row("03/02/2024", Salary, 0, 0, 25000),
      create_transaction_row("04/02/2024", Salary, 10000, 10000, 0),
      create_transaction_row("05/02/2024", MonthlyFee, 25000, 0, 0 - 15000) }

IdleExtract ==
    /\ bank = None /\ rows = <<>> /\ previous_balance = <<>>
    /\ current_balance = 0 /\ current_year = None
    /\ scan = "idle" /\ lineNo = 0

InitSummary ==
    /\ df = <<>>
    /\ summary = <<>>
    /\ IdleExtract /\ IdleDetect /\ IdlePipeline /\ IdleAggregation

AddRow ==
    /\ summary = <<>>
    /\ Len(df) < MaxRows
    /\ \E row \in RowPool : df' = Append(df, row)
    /\ UNCHANGED aggregation
    /\ UNCHANGED <<doc, detected, bank, rows, previous_balance, current_balance,
                   current_year, scan, lineNo, summary, pc, outcome, calls>>

Summarise ==
    /\ summary = <<>>
    /\ summary' = <<calculate_summary(df)>>
    /\ UNCHANGED aggregation
    /\ UNCHANGED <<doc, detected, bank, rows, previous_balance, current_balance,
                   current_year, scan, lineNo, df, pc, outcome, calls>>

NextSummary == AddRow \/ Summarise

SpecSummary == InitSummary /\ [][NextSummary]_vars

\* the sum of one column, taken over the row indices
SumOfColumn(column) ==
    LET RECURSIVE UpTo(_)
        UpTo(n) == IF n = 0 THEN 0 ELSE UpTo(n - 1) + df[n][column]
    IN  UpTo(Len(df))

\* C2: for every non-empty ledger calculate_summary returns total_debits =
\* the sum of the Debit column, total_credits = the sum of the Credit
\* column, net_movement = total_credits - total_debits, ending_balance =
\* the Balance of the last row, and transaction_count = the number of rows.
C2_SummaryOfLedger ==
    (summary # <<>> /\ df # <<>>) =>
        /\ summary[1].total_debits = SumOfColumn("Debit")
        /\ summary[1].total_credits = SumOfColumn("Credit")
        /\ summary[1].net_movement = SumOfColumn("Credit") - SumOfColumn("Debit")
        /\ summary[1].ending_balance = df[Len(df)].Balance
        /\ summary[1].transaction_count = Len(df)

\* the ledger {credit 15000.00, balance 15000.00}, {debit 500.00, balance
\* 14500.00} summarised as 500.00 / 15000.00 / 14500.00 / 14500.00 / 2
C2_Witness ==
    /\ df = <<SalaryRow, FeeRow>>
    /\ summary = <<Summary(50000, 1500000, 1450000, 1450000, 2)>>

-----------------------------------------------------------------------------
(* SpecDetect: a document is laid out page by page and line by line, then  *)
(* detect_bank reads it.                                                   *)

MaxPages == 2
MaxDocLines == 3

HeaderCapitec ==
    <<"C", "a", "p", "i", "t", "e", "c", " ", "B", "a", "n", "k">>
HeaderABSA ==
    <<"A", "B", "S", "A", " ", "C", "h", "e", "q", "u", "e">>
HeaderPlain ==
    <<"S", "t", "a", "t", "e", "m", "e", "n", "t">>
KabsaGrill ==
    <<"K", "a", "b", "s", "a", " ", "G", "r", "i", "l", "l">>
NedbankATM ==
    <<"N", "E", "D", "B", "A", "N", "K", " ", "A", "T", "M">>

HeaderLine(text) ==
    Line("none", FALSE, FALSE, FALSE, PrintedDate("absa"), text, <<>>)

TransactionLine(text) ==
    Line("date", FALSE, FALSE, FALSE, PrintedDate("absa"), text, <<Amt1, Amt2>>)

DetectLines ==
    { HeaderLine(HeaderCapitec), HeaderLine(HeaderABSA),
      TransactionLine(KabsaGrill), TransactionLine(NedbankATM),
      TransactionLine(Salary) }

RECURSIVE LineCount(_)
LineCount(pages) ==
    IF pages = <<>> THEN 0 ELSE Len(Head(pages)) + LineCount(Tail(pages))

InitDetect ==
    /\ doc = [pdf_name |-> TRUE, pages |-> <<>>]
    /\ detected = "pending"
    /\ df = <<>>
    /\ IdleExtract /\ IdleSummary /\ IdlePipeline /\ IdleAggregation

AddPage ==
    /\ detected = "pending"
    /\ Len(doc.pages) < MaxPages
    /\ doc' = [doc EXCEPT !.pages = Append(@, <<>>)]
    /\ UNCHANGED aggregation
    /\ UNCHANGED <<detected, bank, rows, previous_balance, current_balance,
                   current_year, scan, lineNo, df, summary, pc, outcome, calls>>

AddLine ==
    /\ detected = "pending"
    /\ doc.pages # <<>>
    /\ LineCount(doc.pages) < MaxDocLines
    /\ \E line \in DetectLines :
         doc' = [doc EXCEPT !.pages[Len(doc.pages)] = Append(@, line)]
    /\ UNCHANGED aggregation
    /\ UNCHANGED <<detected, bank, rows, previous_balance, current_balance,
                   current_year, scan, lineNo, df, summary, pc, outcome, calls>>

DetectBank ==
    /\ detected = "pending"
    /\ detected' = detect_bank(doc)
    /\ UNCHANGED aggregation
    /\ UNCHANGED <<doc, bank, rows, previous_balance, current_balance,
                   current_year, scan, lineNo, df, summary, pc, outcome, calls>>

NextDetect == AddPage \/ AddLine \/ DetectBank

SpecDetect == InitDetect /\ [][NextDetect]_vars

\* two characters that are the same letter in either case
SameLetter(a, b) ==
    a = b \/ \E i \in DOMAIN UpperCase : {a, b} = {UpperCase[i], LowerCase[i]}

\* keyword occurs in text as a substring, letter case ignored
OccursIgnoringCase(keyword, text) ==
    \E off \in 0..(Len(text) - Len(keyword)) :
        \A j \in 1..Len(keyword) : SameLetter(text[off + j], keyword[j])

\* the registry order as the formats are listed: TymeBank, African Bank, HBZ,
\* Discovery, Investec, Bidvest, ABSA, Nedbank, Standard Bank, FNB, Capitec
ListedOrder ==
    <<"tymebank", "african_bank", "hbz_bank", "discovery_bank", "investec",
      "bidvest", "absa", "nedbank", "standard_bank", "fnb", "capitec">>

\* the positions of the listed formats whose signature occurs on the first page
Matching(d) ==
    IF d.pages = <<>> THEN {}
    ELSE {k \in DOMAIN ListedOrder :
             \E keyword \in DETECTION_KEYWORDS(ListedOrder[k]) :
                 OccursIgnoringCase(keyword, PageText(d.pages[1]))}

\* C3: detect_bank returns the first format, in registry order, one of whose
\* keywords occurs case-insensitively in the first page's text; of several
\* matching formats the earliest wins; it returns None exactly when no format
\* matches or the document has no pages.
C3_DetectFirstInRegistryOrder ==
    detected # "pending" =>
        IF Matching(doc) = {} THEN detected = None
        ELSE /\ detected # None
             /\ \E k \in Matching(doc) :
                    /\ detected = ListedOrder[k]
                    /\ \A j \in Matching(doc) : k <= j

\* a first page matching both ABSA and Nedbank, detected as ABSA
C3_Witness ==
    /\ detected = "absa"
    /\ {7, 8} \subseteq Matching(doc)

\* the document with its transaction lines taken out
HeadersOnly(d) ==
    [d EXCEPT !.pages = [p \in DOMAIN d.pages |->
                            SelectSeq(d.pages[p], LAMBDA l : l.start = "none")]]

\* C4: detection isolation: a document whose first page carries the
\* signature of institution X is detected as X even when a transaction
\* description, on any page, contains a keyword of another institution:
\* the text of transaction lines never influences the result.
C4_DetectionIsolation ==
    (detected # "pending" /\ detect_bank(HeadersOnly(doc)) # None) =>
        detected = detect_bank(HeadersOnly(doc))

-----------------------------------------------------------------------------
(* Spec: process_single_file on an uploaded document.                      *)

BANK_NAME(b) ==
    CASE b = "tymebank" ->
           <<"T", "y", "m", "e", "B", "a", "n", "k">>
      [] b = "african_bank" ->
           <<"A", "f", "r", "i", "c", "a", "n", " ", "B", "a", "n", "k">>
      [] b = "hbz_bank" ->
           <<"H", "B", "Z", " ", "B", "a", "n", "k">>
      [] b = "discovery_bank" ->
           <<"D", "i", "s", "c", "o", "v", "e", "r", "y", " ", "B", "a", "n", "k">>
      [] b = "investec" ->
           <<"I", "n", "v", "e", "s", "t", "e", "c">>
      [] b = "bidvest" ->
           <<"B", "i", "d", "v", "e", "s", "t", " ", "B", "a", "n", "k">>
      [] b = "absa" ->
           <<"A", "B", "S", "A">>
      [] b = "nedbank" ->
           <<"N", "e", "d", "b", "a", "n", "k">>
      [] b = "standard_bank" ->
           <<"S", "t", "a", "n", "d", "a", "r", "d", " ", "B", "a", "n", "k">>
      [] b = "fnb" ->
           <<"F", "N", "B">>
      [] b = "capitec" ->
           <<"C", "a", "p", "i", "t", "e", "c">>

\* the loop over the lines of one page
RECURSIVE ScanLines(_, _, _)
ScanLines(b, st, lines) ==
    IF lines = <<>> \/ st.raised THEN st
    ELSE ScanLines(b, scan_line(b, st, Head(lines)), Tail(lines))

\* FNB recovers the statement year from the first page that has text
WithYear(b, st, page) ==
    IF b = "fnb" /\ st.current_year = None
    THEN [st EXCEPT !.current_year = extract_year_from_text(page)]
    ELSE st

\* the loop over _iterate_pages(), which skips pages without text
RECURSIVE ScanPages(_, _, _)
ScanPages(b, st, pages) ==
    IF pages = <<>> \/ st.raised THEN st
    ELSE IF Head(pages) = <<>> THEN ScanPages(b, st, Tail(pages))
    ELSE ScanPages(b, ScanLines(b, WithYear(b, st, Head(pages)), Head(pages)),
                   Tail(pages))

\* extract_transactions going on from what the previous parser left behind
extract_transactions_resumed(b, d) == ScanPages(b, St, d.pages)

\* extract_transactions of a fresh parser instance: rows = [], no previous
\* balance, no year
extract_transactions(b, d) == ScanPages(b, NewScan(None), d.pages)

HTTPException(status_code, detail, cause) ==
    [kind |-> "HTTPException", status_code |-> status_code, detail |-> detail,
     cause |-> cause]

Returned == [kind |-> "result", status_code |-> 0, detail |-> "", cause |-> ""]

NotAPdf == HTTPException(400, "Only PDF files are accepted", "")
FormatUndetected == HTTPException(400, "Could not detect bank type", "")
EmptyStatement == HTTPException(400, "No transactions detected", "")
ExtractionFailure(cause) == HTTPException(500, "Failed to parse", cause)

\* str(e) of the ValueError float() raises
FloatError == "could not convert string to float"

\* the handler returning whatever ledger extraction produced
after_parse_unchecked(ledger) == Returned

\* process_single_file after parser.parse() returned the ledger
after_parse(ledger) ==
    IF ledger = <<>> THEN EmptyStatement ELSE Returned

\* the handler reporting an extraction error as an empty statement
on_parse_error_as_empty(cause) == EmptyStatement

\* process_single_file's except clause around parser.parse()
on_parse_error(cause) == ExtractionFailure(cause)

SomeLines(b) ==
    { <<>>,
      <<Line("date", FALSE, FALSE, FALSE, PrintedDate(b), Salary, <<>>)>>,
      <<Line("none", FALSE, FALSE, FALSE, PrintedDate(b), Salary, <<Amt1, Amt2>>)>>,
      <<Line("date", FALSE, FALSE, FALSE, PrintedDate(b), Salary, <<Amt1, Amt2>>)>>,
      <<Line("date", FALSE, FALSE, FALSE, PrintedDate(b), Salary, <<Amt1, Amt2>>),
        Line("date", FALSE, FALSE, FALSE, PrintedDate(b), MonthlyFee, <<Amt1>>)>>,
      <<Line("date", FALSE, FALSE, FALSE, PrintedDate(b), Salary, <<Comma, Amt2>>)>>,
      <<Line("date", FALSE, FALSE, FALSE, PrintedDate(b), Salary, <<Amt1, Amt2>>),
        Line("date", FALSE, FALSE, FALSE, PrintedDate(b), Salary, <<Tabbed>>)>> }

\* the uploads: a named file whose first page opens with a bank's name, or
\* with none, and goes on with statement lines on the same or the next page
Upload(n, header, body, split) ==
    [pdf_name |-> n,
     pages |-> IF split THEN <<<<HeaderLine(header)>>, body>>
               ELSE <<<<HeaderLine(header)>> \o body>>]

\* the lines of an FNB statement that print a year: 'Statement Period ...
\* 2025' and a line with a bare 2024
YearLines ==
    { [HeaderLine(HeaderPlain) EXCEPT !.years = [NoYears EXCEPT !.period = "2025"]],
      [HeaderLine(HeaderPlain) EXCEPT !.years = [NoYears EXCEPT !.bare = "2024"]] }

\* FNB statements that print a year on the first page, next to the bank's
\* name, or on the second page only, in front of a line dated 'DD Mon'
DatedPool ==
    LET name == HeaderLine(BANK_NAME("fnb"))
        dated == Line("date", FALSE, FALSE, FALSE, PrintedDate("fnb"), Salary,
                      <<Amt1, Amt2>>)
    IN  { [pdf_name |-> TRUE, pages |-> <<<<name, y, dated>>>>] : y \in YearLines }
        \cup
        { [pdf_name |-> TRUE, pages |-> <<<<name>>, <<y, dated>>>>] : y \in YearLines }
        \cup
        { [pdf_name |-> TRUE, pages |-> <<<<name, y>>, <<z, dated>>>>] :
              y \in YearLines, z \in YearLines }

DocPool ==
    DatedPool
    \cup
    { [pdf_name |-> n, pages |-> <<>>] : n \in BOOLEAN }
    \cup
    UNION { { Upload(n, BANK_NAME(b), body, split) :
                 n \in BOOLEAN, body \in SomeLines(b), split \in BOOLEAN } :
            b \in BankIds }
    \cup
    { Upload(n, HeaderPlain, body, FALSE) :
          n \in BOOLEAN, body \in SomeLines("absa") }

Init ==
    /\ doc \in DocPool
    /\ pc = "start"
    /\ outcome = NoOutcome
    /\ calls = <<>>
    /\ detected = "pending"
    /\ df = <<>>
    /\ IdleExtract /\ IdleSummary /\ IdleAggregation

\* the file name test
CheckFilename ==
    /\ pc = "start"
    /\ IF doc.pdf_name
       THEN pc' = "get_parser" /\ UNCHANGED outcome
       ELSE pc' = "raised" /\ outcome' = NotAPdf
    /\ UNCHANGED aggregation
    /\ UNCHANGED <<doc, detected, bank, rows, previous_balance, current_balance,
                   current_year, scan, lineNo, df, summary, calls>>

\* parser = get_parser(pdf_buffer)
GetParser ==
    /\ pc = "get_parser"
    /\ detected' = detect_bank(doc)
    /\ bank' = get_parser(doc)
    /\ calls' = calls \o <<"detect_bank">>
                      \o (IF bank' # None THEN <<"Parser">> ELSE <<>>)
    /\ IF bank' = None
       THEN pc' = "raised" /\ outcome' = FormatUndetected
       ELSE pc' = "parse" /\ UNCHANGED outcome
    /\ UNCHANGED aggregation
    /\ UNCHANGED <<doc, rows, previous_balance, current_balance, current_year,
                   scan, lineNo, df, summary>>

\* account_info, df = parser.parse()
Parse ==
    /\ pc = "parse"
    /\ LET st == extract_transactions(bank, doc)
       IN  /\ rows' = st.rows
           /\ previous_balance' = st.previous_balance
           /\ current_balance' = st.current_balance
           /\ current_year' = st.current_year
           /\ scan' = IF st.raised THEN "raised" ELSE "done"
           /\ df' = IF st.raised THEN df ELSE st.rows
           /\ IF st.raised
              THEN pc' = "raised" /\ outcome' = on_parse_error(FloatError)
              ELSE pc' = "parsed" /\ UNCHANGED outcome
    /\ lineNo' = LineCount(doc.pages)
    /\ calls' = calls \o <<"extract_account_info", "extract_transactions">>
    /\ UNCHANGED aggregation
    /\ UNCHANGED <<doc, detected, bank, summary>>

\* the empty-ledger test, calculate_summary and the return
Finish ==
    /\ pc = "parsed"
    /\ outcome' = after_parse(df)
    /\ IF outcome'.kind = "result"
       THEN /\ summary' = <<calculate_summary(df)>>
            /\ calls' = Append(calls, "calculate_summary")
            /\ pc' = "returned"
       ELSE /\ pc' = "raised"
            /\ UNCHANGED <<summary, calls>>
    /\ UNCHANGED aggregation
    /\ UNCHANGED <<doc, detected, bank, rows, previous_balance, current_balance,
                   current_year, scan, lineNo, df>>

Next == CheckFilename \/ GetParser \/ Parse \/ Finish

Spec == Init /\ [][Next]_vars

\* what a caller sees of an outcome: the status code and the detail text
Visible(o) == <<o.kind, o.status_code, o.detail>>

Ended == pc \in {"raised", "returned"}

\* the text of all pages of a document, in page order
RECURSIVE DocumentText(_)
DocumentText(pages) ==
    IF pages = <<>> THEN <<>> ELSE Head(pages) \o DocumentText(Tail(pages))

\* C28: the year of FNB's 'DD Mon' dates follows the strict priority
\* statement period, month name, bare 20xx, current year over the text of
\* the document: a lower source is used only when every higher one is
\* absent from the document, and the current year only when no page of the
\* document prints a year.
C28_YearFromDocument ==
    (bank = "fnb" /\ scan = "done") =>
        LET year == extract_year_from_text(DocumentText(doc.pages))
        IN  /\ current_year # None => current_year = year
            /\ \A i \in DOMAIN rows :
                   rows[i].Date = Slashed(PrintedDate("fnb").d,
                                          MONTH_MAP(PrintedDate("fnb").m), year)

\* C5: when no registered signature matches the first page the upload ends
\* in the format-undetected failure and nothing else happens: no parser is
\* instantiated, neither extract_account_info nor extract_transactions runs,
\* no fallback parser is tried, and no ledger or summary is produced.
C5_UndetectedIsTerminal ==
    Matching(doc) = {} =>
        /\ \A i \in DOMAIN calls : calls[i] = "detect_bank"
        /\ bank = None
        /\ rows = <<>> /\ df = <<>> /\ summary = <<>>
        /\ outcome.kind # "result"
        /\ pc \in {"start", "get_parser", "raised"}
        /\ (Ended /\ doc.pdf_name) => outcome = FormatUndetected

\* an upload without a signature, with a line an extractor would have read,
\* ended as undetected
C5_Witness ==
    /\ outcome = FormatUndetected
    /\ doc.pages # <<>>
    /\ \E i \in DOMAIN doc.pages[1] :
          doc.pages[1][i].start = "date" /\ doc.pages[1][i].toks # <<>>

\* C6: process_single_file never returns a result whose ledger is empty: a
\* detected format whose extraction completes without raising and yields no
\* transaction ends in the 'No transactions detected' failure, so every
\* ledger that reaches calculate_summary is non-empty.
C6_NoEmptyLedgerReturned ==
    /\ outcome.kind = "result" => df # <<>>
    /\ summary # <<>> => df # <<>>
    /\ (Ended /\ detected \in BankIds /\ scan = "done" /\ rows = <<>>)
          => outcome = EmptyStatement

\* a detected statement whose extraction ran and found no transaction
C6_Witness ==
    /\ detected \in BankIds
    /\ scan = "done"
    /\ LineCount(doc.pages) > 1
    /\ outcome = EmptyStatement

\* C7: the failure outcomes are distinct and correctly classified: an error
\* raised by parser.parse() is reported as HTTP 500 'Failed to parse' with
\* the cause's message and never as EmptyStatement or FormatUndetected;
\* EmptyStatement is reported only when a format matched and extraction ran
\* without raising; the three failures look different to the caller.
C7_FailuresAreDistinct ==
    /\ (Ended /\ scan = "raised")
          => /\ outcome.kind = "HTTPException"
             /\ outcome.status_code = 500
             /\ outcome.detail = "Failed to parse"
             /\ outcome.cause = FloatError
    /\ outcome = EmptyStatement => (detected \in BankIds /\ scan = "done")
    /\ outcome = FormatUndetected => (detected = None /\ scan = "idle")
    /\ outcome.status_code = 500 => scan = "raised"
    /\ Visible(FormatUndetected) # Visible(EmptyStatement)
    /\ Visible(FormatUndetected) # Visible(ExtractionFailure(FloatError))
    /\ Visible(EmptyStatement) # Visible(ExtractionFailure(FloatError))

\* an extraction that raised after a row was read, reported as a parse failure
C7_Witness ==
    /\ scan = "raised"
    /\ rows # <<>>
    /\ outcome = ExtractionFailure(FloatError)

-----------------------------------------------------------------------------
(* Dates as the metric functions read them: pd.to_datetime(dayfirst=True)  *)
(* of the Date text, day differences and month periods.  Ratios of floats  *)
(* are kept as fractions in lowest terms.                                  *)

TwoDigit(n) == Digit[(n \div 10) + 1] \o Digit[(n % 10) + 1]

DaysInMonth(y, m) ==
    IF m = 2
    THEN (IF y % 4 = 0 /\ (y % 100 # 0 \/ y % 400 = 0) THEN 29 ELSE 28)
    ELSE IF m \in {4, 6, 9, 11} THEN 30
    ELSE 31

\* the calendar days of the years the statements cover
Calendar ==
    {c \in [y : 2023..2024, m : 1..12, d : 1..31] : c.d <= DaysInMonth(c.y, c.m)}

\* the day-first texts that parse, each with its calendar day: day and
\* month are read with or without a leading zero
ParsedDates ==
    LET dd(c) == {TwoDigit(c.d)} \cup (IF c.d < 10 THEN {Digit[c.d + 1]} ELSE {})
        mm(c) == {TwoDigit(c.m)} \cup (IF c.m < 10 THEN {Digit[c.m + 1]} ELSE {})
        yyyy(c) == TwoDigit(c.y \div 100) \o TwoDigit(c.y % 100)
        DayFirstTexts(c) == {d \o "/" \o m \o "/" \o yyyy(c) : d \in dd(c), m \in mm(c)}
        pairs == UNION {{<<t, c>> : t \in DayFirstTexts(c)} : c \in Calendar}
    IN  [t \in {p[1] : p \in pairs} |-> (CHOOSE p \in pairs : p[1] = t)[2]]

\* pd.to_datetime(text, dayfirst=True): <<day>>, or <<>> where it raises
to_datetime(text) ==
    IF text \in DOMAIN ParsedDates THEN <<ParsedDates[text]>> ELSE <<>>

\* the day number of a Timestamp, counted from 1970-01-01
DayNumber(c) ==
    LET RECURSIVE DaysBeforeMonth(_, _)
        DaysBeforeMonth(y, m) ==
            IF m = 1 THEN 0 ELSE DaysInMonth(y, m - 1) + DaysBeforeMonth(y, m - 1)
        RECURSIVE DaysBeforeYear(_)
        DaysBeforeYear(y) ==
            IF y <= 1970 THEN 0
            ELSE DaysInMonth(y - 1, 2) + 337 + DaysBeforeYear(y - 1)
    IN  DaysBeforeYear(c.y) + DaysBeforeMonth(c.y, c.m) + c.d - 1

\* Timestamp.strftime("%Y-%m-%d")
strftime(c) ==
    TwoDigit(c.y \div 100) \o TwoDigit(c.y % 100) \o "-" \o TwoDigit(c.m)
        \o "-" \o TwoDigit(c.d)

\* dates.dt.to_period("M")
to_period(c) == [y |-> c.y, m |-> c.m]

\* the quotient a / b of two non-negative numbers, b > 0
Quotient(a, b) ==
    LET RECURSIVE GCD(_, _)
        GCD(x, y) == IF y = 0 THEN x ELSE GCD(y, x % y)
        g == GCD(a, b)
    IN  [num |-> a \div g, den |-> b \div g]

-----------------------------------------------------------------------------
(* The metric functions of the summary service.  A call that raises (a     *)
(* Date that does not parse, a column read off a frame without columns)    *)
(* yields Raised; optional values are <<>> for None and <<v>> otherwise.   *)

Raised == [raised |-> TRUE]

AllParse(d) == \A i \in DOMAIN d : to_datetime(d[i].Date) # <<>>

Days(d) == {to_datetime(d[i].Date)[1] : i \in DOMAIN d}

Months(d) == {to_period(c) : c \in Days(d)}

CoverageMetrics(start_date, end_date, days_covered, distinct_months, transaction_count, accounts_detected, missing_date_gaps) ==
    [raised |-> FALSE, start_date |-> start_date, end_date |-> end_date,
     days_covered |-> days_covered, distinct_months |-> distinct_months,
     transaction_count |-> transaction_count,
     accounts_detected |-> accounts_detected,
     missing_date_gaps |-> missing_date_gaps]

\* calculate_coverage counting one account whatever the Source column holds
calculate_coverage_one_account(d) ==
    IF d = <<>> THEN CoverageMetrics(None, None, 0, 0, 0, 0, 0)
    ELSE IF ~AllParse(d) THEN Raised
    ELSE
      LET dates == Days(d)
          start_date == CHOOSE c \in dates : \A e \in dates : DayNumber(c) <= DayNumber(e)
          end_date == CHOOSE c \in dates : \A e \in dates : DayNumber(c) >= DayNumber(e)
          days_covered == (DayNumber(end_date) - DayNumber(start_date)) + 1
      IN  CoverageMetrics(strftime(start_date), strftime(end_date), days_covered,
                          Cardinality(Months(d)), Len(d), 1,
                          days_covered - Cardinality(dates))

\* calculate_coverage leaving the last day out of the span
calculate_coverage_exclusive(d) ==
    IF d = <<>> THEN CoverageMetrics(None, None, 0, 0, 0, 0, 0)
    ELSE IF ~AllParse(d) THEN Raised
    ELSE
      LET dates == Days(d)
          start_date == CHOOSE c \in dates : \A e \in dates : DayNumber(c) <= DayNumber(e)
          end_date == CHOOSE c \in dates : \A e \in dates : DayNumber(c) >= DayNumber(e)
          days_covered == DayNumber(end_date) - DayNumber(start_date)
      IN  CoverageMetrics(strftime(start_date), strftime(end_date), days_covered,
                          Cardinality(Months(d)), Len(d),
                          IF "Source" \in DOMAIN d[1]
                          THEN Cardinality({d[i].Source : i \in DOMAIN d}) ELSE 1,
                          days_covered - Cardinality(dates))

calculate_coverage(d) ==
    IF d = <<>> THEN CoverageMetrics(None, None, 0, 0, 0, 0, 0)
    ELSE IF ~AllParse(d) THEN Raised
    ELSE
      LET dates == Days(d)
          start_date == CHOOSE c \in dates : \A e \in dates : DayNumber(c) <= DayNumber(e)
          end_date == CHOOSE c \in dates : \A e \in dates : DayNumber(c) >= DayNumber(e)
          days_covered == (DayNumber(end_date) - DayNumber(start_date)) + 1
          distinct_months == Cardinality(Months(d))
          transaction_count == Len(d)
          accounts_detected ==
              IF "Source" \in DOMAIN d[1]
              THEN Cardinality({d[i].Source : i \in DOMAIN d})
              ELSE 1
          unique_dates == Cardinality(dates)
          missing_date_gaps == days_covered - unique_dates
      IN  CoverageMetrics(strftime(start_date), strftime(end_date), days_covered,
                          distinct_months, transaction_count, accounts_detected,
                          missing_date_gaps)

ActivityVolume(credit_transaction_count, debit_transaction_count, avg_credits_per_month, avg_debits_per_month) ==
    [raised |-> FALSE,
     credit_transaction_count |-> credit_transaction_count,
     debit_transaction_count |-> debit_transaction_count,
     avg_credits_per_month |-> avg_credits_per_month,
     avg_debits_per_month |-> avg_debits_per_month]

\* (df[column] >= 0).sum()
NonNegativeCount(d, column) == Cardinality({i \in DOMAIN d : d[i][column] >= 0})

\* (df[column] > 0).sum()
PositiveCount(d, column) == Cardinality({i \in DOMAIN d : d[i][column] > 0})

\* calculate_activity_volume without its df.empty test: the frame built from
\* no rows has no Credit column to read
calculate_activity_volume_unguarded(d) ==
    IF d = <<>> THEN Raised
    ELSE IF ~AllParse(d) THEN Raised
    ELSE ActivityVolume(PositiveCount(d, "Credit"), PositiveCount(d, "Debit"),
                        Quotient(PositiveCount(d, "Credit"), Cardinality(Months(d))),
                        Quotient(PositiveCount(d, "Debit"), Cardinality(Months(d))))

calculate_activity_volume(d) ==
    IF d = <<>> THEN ActivityVolume(0, 0, Quotient(0, 1), Quotient(0, 1))
    ELSE
      LET credit_count == PositiveCount(d, "Credit")
          debit_count == PositiveCount(d, "Debit")
      IN  IF ~AllParse(d) THEN Raised
          ELSE
            LET distinct_months == Cardinality(Months(d))
            IN  IF distinct_months > 0
                THEN ActivityVolume(credit_count, debit_count,
                                    Quotient(credit_count, distinct_months),
                                    Quotient(debit_count, distinct_months))
                ELSE ActivityVolume(credit_count, debit_count, Quotient(0, 1), Quotient(0, 1))

RevenueMetrics(total_credits, avg_monthly_credits, lowest_month_credits, highest_month_credits, revenue_volatility_pct, top_5_credit_concentration_pct, largest_single_credit) ==
    [raised |-> FALSE, total_credits |-> total_credits,
     avg_monthly_credits |-> avg_monthly_credits,
     lowest_month_credits |-> lowest_month_credits,
     highest_month_credits |-> highest_month_credits,
     revenue_volatility_pct |-> revenue_volatility_pct,
     top_5_credit_concentration_pct |-> top_5_credit_concentration_pct,
     largest_single_credit |-> largest_single_credit]

\* df_with_month.groupby("Month")["Credit"].sum(), at month p
MonthCredits(d, p) ==
    LET InMonth(row) == to_period(to_datetime(row.Date)[1]) = p
    IN  ColumnSum(SelectSeq(d, InMonth), "Credit")

Lowest(values) == CHOOSE v \in values : \A w \in values : v <= w

Highest(values) == CHOOSE v \in values : \A w \in values : v >= w

\* df["Credit"].nlargest(n).sum(), over the rows at the positions idx
RECURSIVE nlargest_sum(_, _, _)
nlargest_sum(d, idx, n) ==
    IF n = 0 \/ idx = {} THEN 0
    ELSE LET i == CHOOSE j \in idx : \A k \in idx : d[j].Credit >= d[k].Credit
         IN  d[i].Credit + nlargest_sum(d, idx \ {i}, n - 1)

\* (a / q) * 100 for a number a and a quotient q > 0
PercentOf(a, q) == Quotient(a * q.den * 100, q.num)

\* calculate_revenue with the volatility taken from the highest month alone
calculate_revenue_peak(d) ==
    IF d = <<>> THEN RevenueMetrics(0, Quotient(0, 1), 0, 0, <<>>, <<>>, 0)
    ELSE IF ~AllParse(d) THEN Raised
    ELSE RevenueMetrics(
           ColumnSum(d, "Credit"),
           Quotient(ColumnSum(d, "Credit"), Cardinality(Months(d))),
           Lowest({MonthCredits(d, p) : p \in Months(d)}),
           Highest({MonthCredits(d, p) : p \in Months(d)}),
           IF ColumnSum(d, "Credit") > 0
           THEN <<PercentOf(Highest({MonthCredits(d, p) : p \in Months(d)}),
                            Quotient(ColumnSum(d, "Credit"), Cardinality(Months(d))))>>
           ELSE <<>>,
           IF ColumnSum(d, "Credit") > 0
           THEN <<Quotient(nlargest_sum(d, DOMAIN d, 5) * 100, ColumnSum(d, "Credit"))>>
           ELSE <<>>,
           Highest({d[i].Credit : i \in DOMAIN d}))

\* calculate_revenue taking the five largest credits as all of them
calculate_revenue_all_credits(d) ==
    IF d = <<>> THEN RevenueMetrics(0, Quotient(0, 1), 0, 0, <<>>, <<>>, 0)
    ELSE IF ~AllParse(d) THEN Raised
    ELSE RevenueMetrics(
           ColumnSum(d, "Credit"),
           Quotient(ColumnSum(d, "Credit"), Cardinality(Months(d))),
           Lowest({MonthCredits(d, p) : p \in Months(d)}),
           Highest({MonthCredits(d, p) : p \in Months(d)}),
           IF ColumnSum(d, "Credit") > 0
           THEN <<PercentOf(Highest({MonthCredits(d, p) : p \in Months(d)})
                              - Lowest({MonthCredits(d, p) : p \in Months(d)}),
                            Quotient(ColumnSum(d, "Credit"), Cardinality(Months(d))))>>
           ELSE <<>>,
           IF ColumnSum(d, "Credit") > 0 THEN <<Quotient(100, 1)>> ELSE <<>>,
           Highest({d[i].Credit : i \in DOMAIN d}))

calculate_revenue(d) ==
    IF d = <<>> THEN RevenueMetrics(0, Quotient(0, 1), 0, 0, <<>>, <<>>, 0)
    ELSE
      LET total_credits == ColumnSum(d, "Credit")
          largest_single_credit == Highest({d[i].Credit : i \in DOMAIN d})
      IN  IF ~AllParse(d) THEN Raised
          ELSE
            LET monthly_credits == [p \in Months(d) |-> MonthCredits(d, p)]
                distinct_months == Cardinality(DOMAIN monthly_credits)
                monthly == {monthly_credits[p] : p \in DOMAIN monthly_credits}
                avg_monthly_credits ==
                    IF distinct_months > 0
                    THEN Quotient(total_credits, distinct_months) ELSE Quotient(0, 1)
                lowest_month_credits ==
                    IF distinct_months > 0 THEN Lowest(monthly) ELSE 0
                highest_month_credits ==
                    IF distinct_months > 0 THEN Highest(monthly) ELSE 0
                revenue_volatility_pct ==
                    IF distinct_months > 0 /\ avg_monthly_credits.num > 0
                    THEN <<PercentOf(highest_month_credits - lowest_month_credits,
                                     avg_monthly_credits)>>
                    ELSE <<>>
                top_5_credit_concentration_pct ==
                    IF total_credits > 0
                    THEN <<Quotient(nlargest_sum(d, DOMAIN d, 5) * 100, total_credits)>>
                    ELSE <<>>
            IN  RevenueMetrics(total_credits, avg_monthly_credits,
                               lowest_month_credits, highest_month_credits,
                               revenue_volatility_pct,
                               top_5_credit_concentration_pct,
                               largest_single_credit)

-----------------------------------------------------------------------------
(* The metric functions applied to a ledger: the ledger is put together    *)
(* row by row, then one of the four functions of the summary service is    *)
(* called on it.                                                           *)

MaxLedger == 6

LedgerPool ==
    { create_transaction_row("03/02/2023", Salary, 0, 100000, 100000),
      create_transaction_row("01/02/2024", MonthlyFee, 50000, 0, 50000),
      create_transaction_row("02/02/2024", Salary, 0, 25000, 75000),
      create_transaction_row("02/02/2024", MonthlyFee, 0, 0, 75000) }

AddTransaction ==
    /\ metrics = <<>> /\ summary = <<>>
    /\ Len(df) < MaxLedger
    /\ \E row \in LedgerPool : df' = Append(df, row)
    /\ UNCHANGED <<doc, detected, bank, rows, previous_balance, current_balance,
                   current_year, scan, lineNo, summary, pc, outcome, calls,
                   metrics, results, all_dfs, combined>>

SummaryOfLedger ==
    /\ metrics = <<>>
    /\ Summarise

CoverageOfLedger ==
    /\ metrics = <<>> /\ summary = <<>>
    /\ metrics' = <<[fn |-> "calculate_coverage", value |-> calculate_coverage(df)]>>
    /\ UNCHANGED <<doc, detected, bank, rows, previous_balance, current_balance,
                   current_year, scan, lineNo, df, summary, pc, outcome, calls,
                   results, all_dfs, combined>>

ActivityOfLedger ==
    /\ metrics = <<>> /\ summary = <<>>
    /\ metrics' = <<[fn |-> "calculate_activity_volume",
                   value |-> calculate_activity_volume(df)]>>
    /\ UNCHANGED <<doc, detected, bank, rows, previous_balance, current_balance,
                   current_year, scan, lineNo, df, summary, pc, outcome, calls,
                   results, all_dfs, combined>>

RevenueOfLedger ==
    /\ metrics = <<>> /\ summary = <<>>
    /\ metrics' = <<[fn |-> "calculate_revenue", value |-> calculate_revenue(df)]>>
    /\ UNCHANGED <<doc, detected, bank, rows, previous_balance, current_balance,
                   current_year, scan, lineNo, df, summary, pc, outcome, calls,
                   results, all_dfs, combined>>

NextMetrics ==
    \/ AddTransaction
    \/ SummaryOfLedger
    \/ CoverageOfLedger
    \/ ActivityOfLedger
    \/ RevenueOfLedger

SpecMetrics == InitSummary /\ [][NextMetrics]_vars

-----------------------------------------------------------------------------
(* Properties of the metric functions, over the ledgers of SpecMetrics.    *)

Answered(fn) == metrics # <<>> /\ metrics[1].fn = fn

\* the day numbers on which the ledger has activity
ActiveDays == {DayNumber(to_datetime(df[i].Date)[1]) : i \in DOMAIN df}

\* the (year, month) pairs the ledger's dates cover
CoveredMonths ==
    {<<to_datetime(df[i].Date)[1].y, to_datetime(df[i].Date)[1].m>> : i \in DOMAIN df}

\* C13: for every non-empty ledger with valid dates calculate_coverage returns
\* days_covered = (latest date - earliest date) in days + 1 and
\* missing_date_gaps = days_covered - number of distinct dates with activity;
\* missing_date_gaps is never negative, and is 0 when every calendar day from
\* the first to the last date has a transaction.
C13_CoverageSpan ==
    (Answered("calculate_coverage") /\ df # <<>>) =>
        LET m == metrics[1].value
            active == ActiveDays
            first == CHOOSE n \in active : \A k \in active : n <= k
            last == CHOOSE n \in active : \A k \in active : n >= k
        IN  /\ ~m.raised
            /\ m.days_covered = (last - first) + 1
            /\ m.days_covered = Cardinality(first..last)
            /\ m.missing_date_gaps = m.days_covered - Cardinality(active)
            /\ m.missing_date_gaps >= 0
            /\ (\A n \in first..last : n \in active) => m.missing_date_gaps = 0

\* a ledger running from 03/02/2023 to 02/02/2024 with activity on two days
\* only: 365 days covered, 363 of them without a transaction
C13_Witness ==
    /\ Answered("calculate_coverage")
    /\ Len(df) = 3
    /\ Cardinality(ActiveDays) = 2
    /\ metrics[1].value.start_date = "2023-02-03"
    /\ metrics[1].value.end_date = "2024-02-02"
    /\ metrics[1].value.days_covered = 365
    /\ metrics[1].value.missing_date_gaps = 363

\* C14 as stated: for every non-empty ledger whose transactions all fall in
\* the same calendar month calculate_revenue returns revenue_volatility_pct
\* = 0, whatever the credit amounts are.
C14_SameMonthVolatilityZero ==
    (Answered("calculate_revenue") /\ df # <<>> /\ Cardinality(CoveredMonths) = 1) =>
        /\ ~metrics[1].value.raised
        /\ metrics[1].value.revenue_volatility_pct = <<Quotient(0, 1)>>

\* C14 amended: for every non-empty ledger whose transactions all fall in the
\* same calendar month calculate_revenue returns revenue_volatility_pct = 0
\* when the ledger's credits sum to more than 0, and null when they sum to 0.
C14_SameMonthVolatility ==
    (Answered("calculate_revenue") /\ df # <<>> /\ Cardinality(CoveredMonths) = 1) =>
        /\ ~metrics[1].value.raised
        /\ metrics[1].value.revenue_volatility_pct =
               IF SumOfColumn("Credit") > 0 THEN <<Quotient(0, 1)>> ELSE <<>>

\* a February 2024 ledger holding a credit of 250.00, a debit and a row
\* without amounts: volatility 0
C14_Witness ==
    /\ Answered("calculate_revenue")
    /\ Len(df) = 3
    /\ {df[i].Date : i \in DOMAIN df} = {"01/02/2024", "02/02/2024"}
    /\ {df[i].Credit : i \in DOMAIN df} = {0, 25000}
    /\ metrics[1].value.total_credits = 25000
    /\ metrics[1].value.revenue_volatility_pct = <<Quotient(0, 1)>>

HasCredit(row) == row.Credit > 0

HasDebit(row) == row.Debit > 0

\* avg is the quotient count / months
IsQuotient(avg, count, months) ==
    avg.den > 0 /\ avg.num * months = count * avg.den

\* C15: calculate_activity_volume counts the rows with Credit > 0 and the rows
\* with Debit > 0 (rows with 0 are not counted); each per-month average is
\* that count divided by the number of distinct (year, month) pairs of the
\* ledger's dates; with no months the averages are 0 and nothing is raised.
C15_ActivityCounts ==
    Answered("calculate_activity_volume") =>
        LET m == metrics[1].value
            months == Cardinality(CoveredMonths)
        IN  /\ ~m.raised
            /\ m.credit_transaction_count = Len(SelectSeq(df, HasCredit))
            /\ m.debit_transaction_count = Len(SelectSeq(df, HasDebit))
            /\ IF months = 0
               THEN /\ m.avg_credits_per_month = [num |-> 0, den |-> 1]
                    /\ m.avg_debits_per_month = [num |-> 0, den |-> 1]
               ELSE /\ IsQuotient(m.avg_credits_per_month,
                                  m.credit_transaction_count, months)
                    /\ IsQuotient(m.avg_debits_per_month,
                                  m.debit_transaction_count, months)

\* four rows over two months, two with a credit, one with a debit and one
\* with neither: counts 2 and 1, averages 1 and 1/2
C15_Witness ==
    /\ Answered("calculate_activity_volume")
    /\ Len(df) = 4
    /\ \E i \in DOMAIN df : df[i].Credit = 0 /\ df[i].Debit = 0
    /\ Cardinality(CoveredMonths) = 2
    /\ metrics[1].value.credit_transaction_count = 2
    /\ metrics[1].value.debit_transaction_count = 1
    /\ metrics[1].value.avg_credits_per_month = [num |-> 1, den |-> 1]
    /\ metrics[1].value.avg_debits_per_month = [num |-> 1, den |-> 2]

\* the credits and the debits of the ledger are all 0
AllZero == \A i \in DOMAIN df : df[i].Credit = 0 /\ df[i].Debit = 0

\* C16: no aggregation function raises on an empty or degenerate ledger.  On
\* the empty ledger calculate_summary returns zero totals and count,
\* calculate_coverage null first and last date with every count 0,
\* calculate_activity_volume counts 0 and averages 0, calculate_revenue zero
\* amounts with null volatility and null concentration; on a non-empty
\* ledger whose credits and debits are all 0 each function returns a value.
C16_NoRaiseOnDegenerate ==
    /\ (df = <<>> /\ summary # <<>>) =>
          /\ summary[1].total_debits = 0 /\ summary[1].total_credits = 0
          /\ summary[1].net_movement = 0 /\ summary[1].ending_balance = 0
          /\ summary[1].transaction_count = 0
    /\ (df = <<>> /\ Answered("calculate_coverage")) =>
          LET m == metrics[1].value
          IN  /\ ~m.raised
              /\ m.start_date = None /\ m.end_date = None
              /\ m.days_covered = 0 /\ m.distinct_months = 0
              /\ m.transaction_count = 0 /\ m.accounts_detected = 0
              /\ m.missing_date_gaps = 0
    /\ (df = <<>> /\ Answered("calculate_activity_volume")) =>
          LET m == metrics[1].value
          IN  /\ ~m.raised
              /\ m.credit_transaction_count = 0 /\ m.debit_transaction_count = 0
              /\ m.avg_credits_per_month.num = 0 /\ m.avg_debits_per_month.num = 0
    /\ (df = <<>> /\ Answered("calculate_revenue")) =>
          LET m == metrics[1].value
          IN  /\ ~m.raised
              /\ m.total_credits = 0 /\ m.avg_monthly_credits.num = 0
              /\ m.lowest_month_credits = 0 /\ m.highest_month_credits = 0
              /\ m.largest_single_credit = 0
              /\ m.revenue_volatility_pct = <<>>
              /\ m.top_5_credit_concentration_pct = <<>>
    /\ (AllZero /\ metrics # <<>>) => ~metrics[1].value.raised
    /\ (AllZero /\ df # <<>> /\ summary # <<>>) =>
          /\ summary[1].total_debits = 0 /\ summary[1].total_credits = 0
          /\ summary[1].transaction_count = Len(df)

\* calculate_activity_volume called on the empty ledger
C16_Witness ==
    /\ df = <<>>
    /\ Answered("calculate_activity_volume")
    /\ ~metrics[1].value.raised
    /\ metrics[1].value.avg_credits_per_month = [num |-> 0, den |-> 1]

\* the sum of the Credit values at the positions idx
RECURSIVE CreditsAt(_)
CreditsAt(idx) ==
    IF idx = {} THEN 0
    ELSE LET i == CHOOSE j \in idx : TRUE
         IN  df[i].Credit + CreditsAt(idx \ {i})

\* the month totals of the ledger's credits
MonthTotals ==
    { CreditsAt({i \in DOMAIN df :
                   <<to_datetime(df[i].Date)[1].y, to_datetime(df[i].Date)[1].m>> = p})
        : p \in CoveredMonths }

\* the largest sum that five rows of the ledger, or fewer, reach
FiveLargest ==
    LET sums == {CreditsAt(idx) :
                   idx \in {x \in SUBSET DOMAIN df : Cardinality(x) <= 5}}
    IN  CHOOSE v \in sums : \A w \in sums : v >= w

\* C17: for every non-empty ledger calculate_revenue returns
\* avg_monthly_credits = total credits / distinct months;
\* revenue_volatility_pct = (highest month total - lowest month total) /
\* average x 100, null exactly when the average is 0;
\* top_5_credit_concentration_pct = sum of the 5 largest single Credit values
\* / total credits x 100, null exactly when the total is 0, otherwise in
\* (0, 100], and 100 when at most five rows have a positive credit.
C17_RevenueRatios ==
    (Answered("calculate_revenue") /\ df # <<>>) =>
        LET m == metrics[1].value
            total == CreditsAt(DOMAIN df)
            months == Cardinality(CoveredMonths)
            hi == CHOOSE v \in MonthTotals : \A w \in MonthTotals : v >= w
            lo == CHOOSE v \in MonthTotals : \A w \in MonthTotals : v <= w
            vol == m.revenue_volatility_pct
            top == m.top_5_credit_concentration_pct
        IN  /\ ~m.raised
            /\ m.total_credits = total
            /\ IsQuotient(m.avg_monthly_credits, total, months)
            /\ (vol = <<>>) <=> (m.avg_monthly_credits.num = 0)
            /\ vol # <<>> => vol[1] = Quotient((hi - lo) * months * 100, total)
            /\ (top = <<>>) <=> (total = 0)
            /\ top # <<>> =>
                  /\ top[1] = Quotient(FiveLargest * 100, total)
                  /\ top[1].num > 0
                  /\ top[1].num <= 100 * top[1].den
                  /\ Len(SelectSeq(df, HasCredit)) <= 5 => top[1] = Quotient(100, 1)

\* six credits over two months: the five largest fall short of the total and
\* the two months differ
C17_Witness ==
    /\ Answered("calculate_revenue")
    /\ Len(SelectSeq(df, HasCredit)) = 6
    /\ Cardinality(CoveredMonths) = 2
    /\ metrics[1].value.revenue_volatility_pct # <<>>
    /\ metrics[1].value.revenue_volatility_pct[1].num > 0
    /\ metrics[1].value.top_5_credit_concentration_pct # <<>>
    /\ metrics[1].value.top_5_credit_concentration_pct[1].num
          < 100 * metrics[1].value.top_5_credit_concentration_pct[1].den

-----------------------------------------------------------------------------
(* The multi-upload request: every uploaded file goes through              *)
(* process_single_file in upload order, its ledger is copied and tagged    *)
(* with the Source column, and with more than one file the tagged copies   *)
(* are concatenated into the combined ledger.  results holds what          *)
(* process_single_file returned, all_dfs the tagged copies, combined the   *)
(* outcome of the request.                                                 *)

MaxFiles == 3

\* df_with_source = df.copy(); df_with_source["Source"] = bank_name
with_source(d, bank_name) ==
    [i \in DOMAIN d |->
        [column \in DOMAIN d[i] \cup {"Source"} |->
            IF column = "Source" THEN bank_name ELSE d[i][column]]]

\* pd.concat with the frames taken last to first
RECURSIVE concat_reversed(_)
concat_reversed(dfs) ==
    IF dfs = <<>> THEN <<>> ELSE concat_reversed(Tail(dfs)) \o Head(dfs)

\* pd.concat(dfs, ignore_index=True)
RECURSIVE concat(_)
concat(dfs) == IF dfs = <<>> THEN <<>> ELSE Head(dfs) \o concat(Tail(dfs))

\* what process_single_file returns for the files that parse: statements of
\* two Capitec accounts and of one FNB account
ParsedFiles ==
    LET File(b, d) ==
            [bank_name |-> BANK_NAME(b), summary |-> calculate_summary(d), df |-> d]
        third == create_transaction_row("03/02/2024", Salary, 0, 25000, 1475000)
    IN  { File("capitec", <<SalaryRow, FeeRow>>),
          File("capitec", <<FeeRow, third, SalaryRow>>),
          File("capitec", <<third>>),
          File("fnb", <<SalaryRow, FeeRow, third>>),
          File("fnb", <<SalaryRow, FeeRow>>),
          File("fnb", <<FeeRow>>) }

\* one pass of the loop over the files, for a file that parses
ProcessFile ==
    /\ combined = <<>>
    /\ Len(results) < MaxFiles
    /\ \E result \in ParsedFiles :
          /\ results' = Append(results, result)
          /\ all_dfs' = Append(all_dfs, with_source(result.df, result.bank_name))
    /\ UNCHANGED <<doc, detected, bank, rows, previous_balance, current_balance,
                   current_year, scan, lineNo, df, summary, pc, outcome, calls,
                   metrics, combined>>

\* one pass of the loop for a file process_single_file rejects: the
\* HTTPException ends the request
RejectFile ==
    /\ combined = <<>>
    /\ Len(results) < MaxFiles
    /\ \E e \in {NotAPdf, FormatUndetected, EmptyStatement} : combined' = <<e>>
    /\ UNCHANGED <<doc, detected, bank, rows, previous_balance, current_balance,
                   current_year, scan, lineNo, df, summary, pc, outcome, calls,
                   metrics, results, all_dfs>>

\* after the loop: one file is answered by its own result, several by the
\* combined ledger and its summary
Respond ==
    /\ combined = <<>>
    /\ Len(results) >= 1
    /\ combined' =
          IF Len(results) = 1
          THEN <<[kind |-> "single", summary |-> results[1].summary,
                  transactions |-> results[1].df]>>
          ELSE LET combined_df == concat(all_dfs)
               IN  <<[kind |-> "combined",
                      summary |-> calculate_summary(combined_df),
                      transactions |-> combined_df,
                      document_count |-> Len(results)]>>
    /\ UNCHANGED <<doc, detected, bank, rows, previous_balance, current_balance,
                   current_year, scan, lineNo, df, summary, pc, outcome, calls,
                   metrics, results, all_dfs>>

\* calculate_coverage called on the combined ledger
CoverageOfCombined ==
    /\ metrics = <<>>
    /\ combined # <<>> /\ combined[1].kind = "combined"
    /\ metrics' = <<[fn |-> "calculate_coverage",
                   value |-> calculate_coverage(combined[1].transactions)]>>
    /\ UNCHANGED <<doc, detected, bank, rows, previous_balance, current_balance,
                   current_year, scan, lineNo, df, summary, pc, outcome, calls,
                   results, all_dfs, combined>>

NextCombine ==
    \/ ProcessFile
    \/ RejectFile
    \/ Respond
    \/ CoverageOfCombined

SpecCombine == InitSummary /\ [][NextCombine]_vars

\* the combined ledger of a request that was answered with one
Combined == combined # <<>> /\ combined[1].kind = "combined"

\* the number of rows of the documents before document i
RECURSIVE RowsBefore(_)
RowsBefore(i) == IF i = 1 THEN 0 ELSE RowsBefore(i - 1) + Len(results[i - 1].df)

Columns == {"Date", "Description", "Debit", "Credit", "Balance"}

\* C12: calculate_coverage over the combined ledger built from n parsed
\* documents with k_1 .. k_n transactions reports accounts_detected = n and
\* transaction_count = k_1 + ... + k_n, for every choice of documents.
C12_AccountsAndTransactions ==
    (Combined /\ Answered("calculate_coverage")) =>
        /\ ~metrics[1].value.raised
        /\ metrics[1].value.accounts_detected = Len(results)
        /\ metrics[1].value.transaction_count = RowsBefore(Len(results) + 1)

\* C12 amended: calculate_coverage over the combined ledger built from n
\* parsed documents with k_1 .. k_n transactions reports accounts_detected =
\* the number of distinct Source labels (bank names) among the documents,
\* which is n when the documents come from n different banks, and
\* transaction_count = k_1 + ... + k_n.
C12_SourcesAndTransactions ==
    (Combined /\ Answered("calculate_coverage")) =>
        LET labels == {results[i].bank_name : i \in DOMAIN results}
        IN  /\ ~metrics[1].value.raised
            /\ metrics[1].value.accounts_detected = Cardinality(labels)
            /\ (\A i, j \in DOMAIN results :
                   i # j => results[i].bank_name # results[j].bank_name)
                  => metrics[1].value.accounts_detected = Len(results)
            /\ metrics[1].value.transaction_count = RowsBefore(Len(results) + 1)

\* ledger A (Capitec, 2 transactions) and ledger B (FNB, 3 transactions):
\* accounts_detected 2 and transaction_count 5
C12_Witness ==
    /\ Combined /\ Answered("calculate_coverage")
    /\ Len(results) = 2
    /\ results[1].bank_name = BANK_NAME("capitec") /\ Len(results[1].df) = 2
    /\ results[2].bank_name = BANK_NAME("fnb") /\ Len(results[2].df) = 3
    /\ metrics[1].value.accounts_detected = 2
    /\ metrics[1].value.transaction_count = 5

\* C20: the combined ledger is the concatenation of the per-document ledgers
\* in upload order, every row tagged with its document's Source label and
\* with Date, Description, Debit, Credit and Balance as in the document;
\* the per-document ledgers stay as they were parsed, without a Source column.
C20_CombinedIsConcatenation ==
    Combined =>
        LET t == combined[1].transactions
        IN  /\ Len(t) = RowsBefore(Len(results) + 1)
            /\ combined[1].document_count = Len(results)
            /\ \A i \in DOMAIN results : \A j \in DOMAIN results[i].df :
                  LET row == t[RowsBefore(i) + j]
                  IN  /\ DOMAIN row = Columns \cup {"Source"}
                      /\ row.Source = results[i].bank_name
                      /\ \A column \in Columns : row[column] = results[i].df[j][column]
            /\ \A i \in DOMAIN results :
                  /\ results[i] \in ParsedFiles
                  /\ \A j \in DOMAIN results[i].df : DOMAIN results[i].df[j] = Columns

\* a Capitec statement of two rows followed by an FNB statement of three:
\* five rows, the first two tagged Capitec, the last three FNB
C20_Witness ==
    /\ Combined
    /\ Len(results) = 2
    /\ Len(results[1].df) = 2 /\ Len(results[2].df) = 3
    /\ Len(combined[1].transactions) = 5
    /\ combined[1].transactions[2].Source = BANK_NAME("capitec")
    /\ combined[1].transactions[3].Source = BANK_NAME("fnb")
    /\ combined[1].transactions[3].Balance = results[2].df[1].Balance

-----------------------------------------------------------------------------
(* SpecRequest: a multi-upload request, parse_statement_json's loop over    *)
(* the uploaded files with process_single_file run on each document.  The  *)
(* extraction variables hold what the last parser instance left behind.    *)

\* the uploaded files: statements of three banks that parse, come out empty
\* or make the extractor raise, a file that is not named .pdf and a file of
\* no known format
UploadPool ==
    UNION { { Upload(TRUE, BANK_NAME(b), body, FALSE) :
                 body \in {lines \in SomeLines(b) :
                               \/ lines = <<>>
                               \/ lines[1].start = "date" /\ lines[1].toks = <<Amt1, Amt2>>} } :
            b \in {"capitec", "fnb", "tymebank"} }
    \cup
    { Upload(FALSE, BANK_NAME("capitec"), <<>>, FALSE),
      Upload(TRUE, HeaderPlain, <<>>, FALSE) }

\* process_single_file: the exception raised or Returned, the parser chosen,
\* the locals of its extract_transactions and the dict returned
process_single_file(d) ==
    IF ~d.pdf_name
    THEN [outcome |-> NotAPdf, parser |-> None, st |-> <<>>, result |-> <<>>]
    ELSE
      LET parser == get_parser(d)
          st == extract_transactions(parser, d)
      IN  IF parser = None
          THEN [outcome |-> FormatUndetected, parser |-> None, st |-> <<>>,
                result |-> <<>>]
          ELSE IF st.raised
          THEN [outcome |-> on_parse_error(FloatError), parser |-> parser,
                st |-> <<st>>, result |-> <<>>]
          ELSE IF after_parse(st.rows) # Returned
          THEN [outcome |-> after_parse(st.rows), parser |-> parser,
                st |-> <<st>>, result |-> <<>>]
          ELSE [outcome |-> Returned, parser |-> parser, st |-> <<st>>,
                result |-> <<[bank_name |-> BANK_NAME(parser),
                              summary |-> calculate_summary(st.rows),
                              df |-> st.rows]>>]

\* the loop going on to the next file after process_single_file raised
after_file_skipped(r) == <<>>

\* the request after one pass of `for file in files`: still open, or ended
\* by the HTTPException process_single_file raised
after_file(r) == IF r.outcome = Returned THEN <<>> ELSE <<r.outcome>>

\* one pass of the loop over the files
UploadFile ==
    /\ combined = <<>>
    /\ Len(calls) < MaxFiles
    /\ \E d \in UploadPool :
         \E r \in {process_single_file(d)} :
             /\ doc' = d
             /\ calls' = Append(calls, d)
             /\ outcome' = r.outcome
             /\ bank' = r.parser
             /\ IF r.st = <<>>
                THEN UNCHANGED <<rows, previous_balance, current_balance,
                                 current_year, scan, lineNo>>
                ELSE /\ rows' = r.st[1].rows
                     /\ previous_balance' = r.st[1].previous_balance
                     /\ current_balance' = r.st[1].current_balance
                     /\ current_year' = r.st[1].current_year
                     /\ scan' = IF r.st[1].raised THEN "raised" ELSE "done"
                     /\ lineNo' = LineCount(d.pages)
             /\ IF r.result = <<>>
                THEN UNCHANGED <<df, summary, results, all_dfs>>
                ELSE /\ df' = r.result[1].df
                     /\ summary' = <<r.result[1].summary>>
                     /\ results' = Append(results, r.result[1])
                     /\ all_dfs' = Append(all_dfs, with_source(r.result[1].df,
                                                               r.result[1].bank_name))
             /\ combined' = after_file(r)
    /\ UNCHANGED <<detected, pc, metrics>>

NextRequest == UploadFile \/ Respond

SpecRequest == InitSummary /\ [][NextRequest]_vars

\* the ledger extract_transactions gives for document d uploaded alone
LedgerAlone(d) == ScanPages(get_parser(d), NewScan(None), d.pages).rows

\* C21: document parses are independent: the ledger and Summary of every
\* document of a multi-document request are those the document gives when
\* it is uploaded alone, at whatever position it stands; no previous
\* balance, row, year or parser is carried from one document to the next.
C21_ParsesAreIndependent ==
    /\ Len(results) <= Len(calls)
    /\ \A i \in DOMAIN results : \A alone \in {LedgerAlone(calls[i])} :
          /\ results[i].df = alone
          /\ results[i].summary = calculate_summary(alone)
          /\ results[i].bank_name = BANK_NAME(get_parser(calls[i]))
          /\ all_dfs[i] = with_source(alone, results[i].bank_name)
    /\ (combined # <<>> /\ combined[1].kind = "single")
          => \A alone \in {LedgerAlone(calls[1])} :
                /\ combined[1].transactions = alone
                /\ combined[1].summary = calculate_summary(alone)

\* the same statement parsed first and third, another one between them
C21_Witness ==
    /\ Len(results) = 3
    /\ calls[1] = calls[3] /\ calls[1] # calls[2]
    /\ get_parser(calls[1]) # get_parser(calls[2])
    /\ results[3] = results[1]
    /\ Len(results[1].df) = 2

\* C29: the request is all-or-nothing: the documents are processed one at a
\* time in upload order, the first document that fails ends the request with
\* that document's error, no document after it is processed, and no
\* per-document or combined output is returned for those that had succeeded.
C29_AllOrNothing ==
    LET failed == {i \in DOMAIN calls : process_single_file(calls[i]).outcome # Returned}
    IN  /\ \A i \in failed : i = Len(calls)
        /\ Len(results) = Len(calls) - Cardinality(failed)
        /\ failed # {} =>
              /\ combined = <<process_single_file(calls[Len(calls)]).outcome>>
              /\ outcome = combined[1]
              /\ outcome.kind = "HTTPException"
              /\ ~ ENABLED UploadFile
              /\ ~ ENABLED Respond
        /\ (combined # <<>> /\ combined[1].kind \in {"single", "combined"})
              => failed = {}

\* a statement that parsed, then one without transactions: the request
\* ended with 'No transactions detected' before a third file was read
C29_Witness ==
    /\ Len(calls) = 2
    /\ Len(results) = 1
    /\ combined = <<EmptyStatement>>

=============================================================================
